---- MODULE Spec2Model ----
\* Chained bucketized hash table (striped-lock and lock-free variants) and its
\* OpenMP driver, modelled from chained_locked.c, chained_lock_free.c, chained.h
\* and main.c.
EXTENDS Integers, Sequences, FiniteSets, TLC

VARIABLES
    variant,        \* "locked" (chained_locked.c) or "lockfree" (chained_lock_free.c)
    resize_enabled, \* int resize_enabled
    speed_test,     \* int speed_test
    resize_needed,  \* int resize_needed
    mem,            \* the heap of Item nodes
    tbl,            \* the heap of ChainedHashTable objects
    chained,        \* the table handle the callers share
    next_chained,   \* static ChainedHashTable* next_chained of resize
    fr,             \* per thread: the activation of lookup / insert / resize_insert
    wk,             \* per thread: its position outside the table operations
    single_taken,   \* the current omp single construct has been claimed
    ncalls,         \* number of table operations started by the callers
    nresize,        \* number of resizes started by the callers
    written,        \* history: per key, the values passed to accepted inserts
    known,          \* history: per key, the table's value for it is determined
    stable,         \* history: per key, that value (INVALID_VALUE: never inserted)
    ndone,          \* history: per key, some accepted insert has returned
    rz_snap,        \* history: the old table's contents when a resize began
    it_snap,        \* history: the flag and the table when the barrier of main.c:236 opened
    contended,      \* history: a compare-and-swap of a bucket head has failed
    gh,             \* history: per thread, facts recorded about its operation
    end_of_file,    \* int end_of_file of main.c
    file,           \* the data file: the chunks its freads return, in order
    fpos,           \* number of chunks read so far
    pool,           \* the explicit tasks created and not yet started
    tk,             \* per thread: the explicit task it is executing and its counts
    run_metrics,    \* MetricObject run_metrics of main
    hcall,          \* a call of hash1 on its own: arguments, position, result
    opt,            \* main before the parallel region: its locals and getopt
    stream          \* FILE* f as bytes: the lines, the file position, the chunks read

vars == <<variant, resize_enabled, speed_test, resize_needed, mem, tbl, chained,
          next_chained, fr, wk, single_taken, ncalls, nresize, written, known,
          stable, ndone, rz_snap, it_snap, contended, gh, end_of_file, file, fpos,
          pool, tk, run_metrics, hcall, opt, stream>>

-----------------------------------------------------------------------------
\* Bounds of the model.

\* number of threads calling the table
NumThreads == 2
\* number of distinct valid keys the callers use
NumKeys == 2
\* number of distinct valid values the callers use
NumVals == 2
\* number of table operations the callers start in one run
MaxCalls == 3

\* calls left to a run that starts from the prefilled chain
PrefillCalls == 2
\* number of Item cells in the heap
MaxNodes == 20
\* number of resizes the callers start in one run
MaxResizes == 1
\* hash1 on its own is called with every number of buckets up to this one
MaxHashBuckets == 8
\* number of characters of an option's argument
MaxOptLen == 2
\* number of options on the command line
MaxOptions == 2

-----------------------------------------------------------------------------
\* uint64_t: four 16-bit limbs, most significant first.

Limb == 2 ^ 16

U64(n) == <<0, 0, 0, n>>

UINT64_MAX == <<Limb - 1, Limb - 1, Limb - 1, Limb - 1>>

INVALID_KEY == UINT64_MAX

INVALID_VALUE == UINT64_MAX

\* (key * 37) + 13 with the carries between the limbs dropped
MulAddNoCarry(key) ==
    <<(key[1] * 37) % Limb, (key[2] * 37) % Limb, (key[3] * 37) % Limb,
      (key[4] * 37 + 13) % Limb>>

\* (key * 37) + 13 in uint64_t arithmetic: the carry out of the top limb is lost
MulAdd(key) ==
    LET t0 == key[4] * 37 + 13
        t1 == key[3] * 37 + (t0 \div Limb)
        t2 == key[2] * 37 + (t1 \div Limb)
        t3 == key[1] * 37 + (t2 \div Limb)
    IN  <<t3 % Limb, t2 % Limb, t1 % Limb, t0 % Limb>>

\* x % n for a uint64_t x
ModU64(x, n) ==
    LET r1 == x[1] % n
        r2 == (r1 * Limb + x[2]) % n
        r3 == (r2 * Limb + x[3]) % n
    IN  (r3 * Limb + x[4]) % n

\* the index without the multiplication and the addition
hash1_no_mix(key, num_buckets) == ModU64(key, num_buckets)

hash1(key, num_buckets) == ModU64(MulAdd(key), num_buckets)

\* hash1 of chained_lock_free.c
hash1_lock_free(key, num_buckets) == ModU64(MulAdd(key), num_buckets)

\* every bucket on the first lock
get_lock_idx_zero(num_locks, bucket_index) == 0

get_lock_idx(num_locks, bucket_index) == bucket_index % num_locks

\* no call of hash1 on its own is in progress
NoCall == [pc |-> "none", key |-> U64(0), num_buckets |-> 1, ret |-> 0]

\* main's option handling is over
NoOpt == [pc |-> "none", n |-> 0, b |-> <<>>, t |-> <<>>,
          initial_buckets |-> 0, num_threads |-> 0]

\* no data file is being read byte by byte
NoStream == [pc |-> "none", lines |-> <<>>, newline |-> TRUE, pos |-> 0, chunks |-> <<>>]

MAX_CHAIN_SIZE == 8

-----------------------------------------------------------------------------
\* Memory.

NULL == 0

Threads == 1..NumThreads

NodeIds == 1..MaxNodes

TableIds == {1, 2}

Keys == {U64(i) : i \in 1..NumKeys}

Values == {U64(i) : i \in 1..NumVals}

FreeItem == [key |-> U64(0), value |-> U64(0), next |-> NULL, live |-> FALSE]

NoTable == [num_buckets |-> 0, num_locks |-> 0, num_items |-> 0,
            buckets |-> <<>>, locks |-> <<>>, live |-> FALSE]

\* malloc(sizeof(Item)): the lowest free cell
CanMalloc == \E n \in NodeIds : ~mem[n].live

Malloc == CHOOSE n \in NodeIds : ~mem[n].live /\ \A m \in NodeIds : m < n => mem[m].live

FreeTable == CHOOSE t \in TableIds : ~tbl[t].live /\ \A u \in TableIds : u < t => tbl[u].live

\* buckets and locks are indexed from 0 in the code, from 1 in these sequences
HeadOf(T, b) == tbl[T].buckets[b + 1]

SetHead(T, b, n) == [tbl EXCEPT ![T].buckets[b + 1] = n]

LockHolder(T, l) == tbl[T].locks[l + 1]

SetLock(T, l, who) == [tbl EXCEPT ![T].locks[l + 1] = who]

create_table(num_buckets, num_locks) ==
    [num_buckets |-> num_buckets,
     num_locks   |-> IF variant = "locked" THEN num_locks ELSE 0,
     num_items   |-> 0,
     buckets     |-> [i \in 1..num_buckets |-> NULL],
     locks       |-> IF variant = "locked" THEN [i \in 1..num_locks |-> 0] ELSE <<>>,
     live        |-> TRUE]

\* the nodes of a chain, head first
RECURSIVE Chain(_)
Chain(n) == IF n = NULL THEN <<>> ELSE <<n>> \o Chain(mem[n].next)

ChainOf(T, b) == Chain(HeadOf(T, b))

Range(s) == {s[i] : i \in DOMAIN s}

TableNodes(T) == UNION {Range(ChainOf(T, b)) : b \in 0..(tbl[T].num_buckets - 1)}

\* destroy_table: every node of every chain is freed, then the table itself
destroy_mem(T) == [n \in NodeIds |-> IF n \in TableNodes(T) THEN FreeItem ELSE mem[n]]

-----------------------------------------------------------------------------
\* Activations.

IdleFrame == [pc |-> "idle", tab |-> 0, key |-> U64(0), value |-> U64(0),
              bucket |-> 0, lock_idx |-> 0, curr |-> NULL, depth |-> 0,
              expected |-> NULL, add_item |-> NULL, temp_resize |-> 0,
              ret |-> U64(0)]

IdleGhost == [op |-> "none", ovl |-> FALSE, want_known |-> FALSE, want |-> U64(0),
              done_before |-> FALSE]

InsertPcs == {"I_lock", "I_scan", "I_alloc", "I_pub", "I_unlock_upd", "I_unlock",
              "F_snap", "F_scan", "F_cas", "I_count", "I_trig", "I_set"}

LookupPcs == {"L_lock", "L_head", "L_walk", "L_unlock", "L_ret"}

Inserting(u, k) == fr[u].pc \in InsertPcs /\ fr[u].key = k /\ gh[u].op = "insert"

LookingUp(u, k) == fr[u].pc \in LookupPcs /\ fr[u].key = k /\ gh[u].op = "lookup"

\* size_t bucket = hash1(key, chained->num_buckets)
BucketOfPublished(T, key) == hash1(key, tbl[chained].num_buckets)

BucketOf(T, key) == hash1(key, tbl[T].num_buckets)

\* if (curr->key == key)
MatchAlways(n, key) == TRUE

MatchNever(n, key) == FALSE

Match(n, key) == mem[n].key = key

\* curr->value = value
OverwriteNone(n, value) == mem

Overwrite(n, value) == [mem EXCEPT ![n].value = value]

\* the fields of a node after malloc: key, value, next = NULL
NewItemNoValue(key, value) ==
    [key |-> key, value |-> U64(0), next |-> NULL, live |-> TRUE]

NewItem(key, value) == [key |-> key, value |-> value, next |-> NULL, live |-> TRUE]

cfg == <<variant, resize_enabled, speed_test, hcall, opt, stream>>

hist == <<written, known, stable, ndone, rz_snap, it_snap, contended>>

\* what a step inside a table operation leaves alone
\* the driver's own state
drv == <<end_of_file, file, fpos, pool, tk, run_metrics>>

ctx == <<chained, next_chained, wk, single_taken, ncalls, nresize, drv>>

Tracked(k) == k \in DOMAIN known

-----------------------------------------------------------------------------
\* lookup (chained_locked.c 186-213, chained_lock_free.c 170-193)

\* entry: the sentinel check, the bucket and the lock index
lookup_call(t, T, key) ==
    /\ fr[t].pc = "idle"
    /\ fr' = [fr EXCEPT ![t] =
                IF key = INVALID_KEY
                THEN [IdleFrame EXCEPT !.pc = "L_ret", !.tab = T, !.key = key,
                                       !.ret = INVALID_VALUE]
                ELSE LET bucket == BucketOf(T, key)
                     IN  [IdleFrame EXCEPT
                            !.pc = IF variant = "locked" THEN "L_lock" ELSE "L_head",
                            !.tab = T, !.key = key, !.bucket = bucket,
                            !.lock_idx = IF variant = "locked"
                                         THEN get_lock_idx(tbl[T].num_locks, bucket)
                                         ELSE 0,
                            !.ret = INVALID_VALUE]]
    /\ gh' = [gh EXCEPT ![t] =
                [IdleGhost EXCEPT !.op = "lookup",
                                  !.want_known = Tracked(key) /\ known[key],
                                  !.want = IF Tracked(key) THEN stable[key] ELSE U64(0),
                                  !.done_before = Tracked(key) /\ ndone[key]]]
    /\ UNCHANGED <<cfg, resize_needed, mem, tbl, hist>>

\* striped: omp_set_lock, then Item* curr = head and the first loop test
lookup_lock(t) ==
    /\ fr[t].pc = "L_lock"
    /\ LockHolder(fr[t].tab, fr[t].lock_idx) = 0
    /\ tbl' = SetLock(fr[t].tab, fr[t].lock_idx, t)
    /\ LET h == HeadOf(fr[t].tab, fr[t].bucket)
       IN  fr' = [fr EXCEPT ![t].pc = IF h = NULL THEN "L_unlock" ELSE "L_walk",
                            ![t].curr = h]
    /\ UNCHANGED <<cfg, resize_needed, mem, hist, gh, ctx>>

\* lock-free: Item* curr = head, an ordinary load, and the first loop test
lookup_head(t) ==
    /\ fr[t].pc = "L_head"
    /\ LET h == HeadOf(fr[t].tab, fr[t].bucket)
       IN  fr' = [fr EXCEPT ![t].pc = IF h = NULL THEN "L_ret" ELSE "L_walk",
                            ![t].curr = h]
    /\ UNCHANGED <<cfg, resize_needed, mem, tbl, hist, gh, ctx>>

\* lookup_walk that starts over from the bucket head after a node that does
\* not match
lookup_walk_restart(t) ==
    /\ fr[t].pc = "L_walk"
    /\ LET curr == fr[t].curr
           out  == IF variant = "locked" THEN "L_unlock" ELSE "L_ret"
       IN  fr' = [fr EXCEPT ![t] =
                    IF Match(curr, fr[t].key)
                    THEN [@ EXCEPT !.pc = out, !.ret = mem[curr].value]
                    ELSE [@ EXCEPT !.curr = HeadOf(fr[t].tab, fr[t].bucket)]]
    /\ UNCHANGED <<cfg, resize_needed, mem, tbl, hist, gh, ctx>>

\* one iteration of while (curr != NULL): the node's key, then its value or its
\* next pointer
lookup_walk(t) ==
    /\ fr[t].pc = "L_walk"
    /\ LET curr == fr[t].curr
           out  == IF variant = "locked" THEN "L_unlock" ELSE "L_ret"
       IN  fr' = [fr EXCEPT ![t] =
                    IF Match(curr, fr[t].key)
                    THEN [@ EXCEPT !.pc = out, !.ret = mem[curr].value]
                    ELSE [@ EXCEPT !.curr = mem[curr].next,
                                   !.pc = IF mem[curr].next = NULL THEN out ELSE "L_walk"]]
    /\ UNCHANGED <<cfg, resize_needed, mem, tbl, hist, gh, ctx>>

\* striped: the return without omp_unset_lock
lookup_unlock_skipped(t) ==
    /\ fr[t].pc = "L_unlock"
    /\ fr' = [fr EXCEPT ![t].pc = "L_ret"]
    /\ UNCHANGED <<cfg, resize_needed, mem, tbl, hist, gh, ctx>>

\* striped: omp_unset_lock
lookup_unlock(t) ==
    /\ fr[t].pc = "L_unlock"
    /\ tbl' = SetLock(fr[t].tab, fr[t].lock_idx, 0)
    /\ fr' = [fr EXCEPT ![t].pc = "L_ret"]
    /\ UNCHANGED <<cfg, resize_needed, mem, hist, gh, ctx>>

\* return value: the caller takes the result
lookup_return(t) ==
    /\ fr[t].pc = "L_ret"
    /\ fr' = [fr EXCEPT ![t] = IdleFrame]
    /\ gh' = [gh EXCEPT ![t] = IdleGhost]
    /\ UNCHANGED <<cfg, resize_needed, mem, tbl, hist>>

-----------------------------------------------------------------------------
\* insert (chained_locked.c 222-306, chained_lock_free.c 202-285)

\* the sentinel checks at the top of insert
RejectedKeyOnly(key, value) == key = INVALID_KEY

Rejected(key, value) == key = INVALID_KEY \/ value = INVALID_VALUE

\* history kept at the entry of an accepted insert of key
NoteInsert(t, key, value) ==
    /\ written' = IF Tracked(key) THEN [written EXCEPT ![key] = @ \cup {value}]
                  ELSE written
    /\ known' = IF Tracked(key) THEN [known EXCEPT ![key] = FALSE] ELSE known
    /\ gh' = [u \in Threads |->
                IF u = t
                THEN [IdleGhost EXCEPT !.op = "insert",
                         !.ovl = \E o \in Threads \ {t} : Inserting(o, key)]
                ELSE IF Inserting(u, key) THEN [gh[u] EXCEPT !.ovl = TRUE]
                ELSE IF LookingUp(u, key) THEN [gh[u] EXCEPT !.want_known = FALSE]
                ELSE gh[u]]
    /\ UNCHANGED <<stable, ndone, rz_snap, it_snap, contended>>

\* history kept when the insert of thread t returns
NoteReturn(t) ==
    LET key == fr[t].key
        acc == gh[t].op = "insert" /\ Tracked(key)
    IN  /\ ndone' = IF acc THEN [ndone EXCEPT ![key] = TRUE] ELSE ndone
        /\ known' = IF acc /\ ~gh[t].ovl THEN [known EXCEPT ![key] = TRUE] ELSE known
        /\ stable' = IF acc /\ ~gh[t].ovl THEN [stable EXCEPT ![key] = fr[t].value]
                     ELSE stable
        /\ gh' = [gh EXCEPT ![t] = IdleGhost]
        /\ UNCHANGED <<written, rz_snap, it_snap, contended>>

\* entry: the sentinel checks return at once; otherwise the bucket and the lock
\* index; the lock-free variant allocates its node here (lines 213-216)
insert_call(t, T, key, value) ==
    /\ fr[t].pc = "idle"
    /\ IF Rejected(key, value)
       THEN /\ fr' = [fr EXCEPT ![t] = [IdleFrame EXCEPT !.pc = "I_ret", !.tab = T,
                                           !.key = key, !.value = value]]
            /\ gh' = [gh EXCEPT ![t] = [IdleGhost EXCEPT !.op = "rejected"]]
            /\ UNCHANGED <<mem, hist>>
       ELSE LET bucket == BucketOf(T, key)
                base   == [IdleFrame EXCEPT !.tab = T, !.key = key, !.value = value,
                                            !.bucket = bucket]
            IN  /\ IF variant = "locked"
                   THEN /\ fr' = [fr EXCEPT ![t] =
                                    [base EXCEPT !.pc = "I_lock",
                                       !.lock_idx = get_lock_idx(tbl[T].num_locks, bucket)]]
                        /\ mem' = mem
                   ELSE /\ CanMalloc
                        /\ fr' = [fr EXCEPT ![t] =
                                    [base EXCEPT !.pc = "F_snap", !.add_item = Malloc]]
                        /\ mem' = [mem EXCEPT ![Malloc] = NewItem(key, value)]
                /\ NoteInsert(t, key, value)
    /\ UNCHANGED <<cfg, resize_needed, tbl>>

\* a rejected insert has returned
insert_return(t) ==
    /\ fr[t].pc = "I_ret"
    /\ fr' = [fr EXCEPT ![t] = IdleFrame]
    /\ gh' = [gh EXCEPT ![t] = IdleGhost]
    /\ UNCHANGED <<cfg, resize_needed, mem, tbl, hist>>

\* striped: omp_set_lock, then curr = head, depth = 0 and the first loop test
insert_lock(t) ==
    /\ fr[t].pc = "I_lock"
    /\ LockHolder(fr[t].tab, fr[t].lock_idx) = 0
    /\ tbl' = SetLock(fr[t].tab, fr[t].lock_idx, t)
    /\ LET h == HeadOf(fr[t].tab, fr[t].bucket)
       IN  fr' = [fr EXCEPT ![t].pc = IF h = NULL THEN "I_alloc" ELSE "I_scan",
                            ![t].depth = 0, ![t].curr = h]
    /\ UNCHANGED <<cfg, resize_needed, mem, hist, gh, ctx>>

\* striped: one iteration of while (curr != NULL); a match is overwritten in place
insert_scan(t) ==
    /\ fr[t].pc = "I_scan"
    /\ LET curr == fr[t].curr
       IN  IF Match(curr, fr[t].key)
           THEN /\ mem' = Overwrite(curr, fr[t].value)
                /\ fr' = [fr EXCEPT ![t].pc = "I_unlock_upd"]
           ELSE /\ fr' = [fr EXCEPT ![t].depth = @ + 1, ![t].curr = mem[curr].next,
                              ![t].pc = IF mem[curr].next = NULL THEN "I_alloc"
                                        ELSE "I_scan"]
                /\ mem' = mem
    /\ UNCHANGED <<cfg, resize_needed, tbl, hist, gh, ctx>>

\* striped: the return after an overwrite without omp_unset_lock
insert_unlock_upd_skipped(t) ==
    /\ fr[t].pc = "I_unlock_upd"
    /\ fr' = [fr EXCEPT ![t] = IdleFrame]
    /\ NoteReturn(t)
    /\ UNCHANGED <<cfg, resize_needed, mem, tbl, ctx>>

\* striped: if (succeeded) { omp_unset_lock; return; }
insert_unlock_upd(t) ==
    /\ fr[t].pc = "I_unlock_upd"
    /\ tbl' = SetLock(fr[t].tab, fr[t].lock_idx, 0)
    /\ fr' = [fr EXCEPT ![t] = IdleFrame]
    /\ NoteReturn(t)
    /\ UNCHANGED <<cfg, resize_needed, mem, ctx>>

\* striped: malloc, key, value, add_item->next = head
insert_alloc(t) ==
    /\ fr[t].pc = "I_alloc"
    /\ CanMalloc
    /\ mem' = [mem EXCEPT ![Malloc] =
                 [NewItem(fr[t].key, fr[t].value) EXCEPT
                    !.next = HeadOf(fr[t].tab, fr[t].bucket)]]
    /\ fr' = [fr EXCEPT ![t].pc = "I_pub", ![t].add_item = Malloc]
    /\ UNCHANGED <<cfg, resize_needed, tbl, hist, gh, ctx>>

\* striped: head = add_item
insert_pub(t) ==
    /\ fr[t].pc = "I_pub"
    /\ tbl' = SetHead(fr[t].tab, fr[t].bucket, fr[t].add_item)
    /\ fr' = [fr EXCEPT ![t].pc = "I_unlock"]
    /\ UNCHANGED <<cfg, resize_needed, mem, hist, gh, ctx>>

\* striped: omp_unset_lock after the splice
insert_unlock(t) ==
    /\ fr[t].pc = "I_unlock"
    /\ tbl' = SetLock(fr[t].tab, fr[t].lock_idx, 0)
    /\ fr' = [fr EXCEPT ![t].pc = "I_count"]
    /\ UNCHANGED <<cfg, resize_needed, mem, hist, gh, ctx>>

\* lock-free: depth = 0; expected = head; curr = expected and the first loop
\* test; past an empty chain add_item->next = expected
insert_snap(t) ==
    /\ fr[t].pc = "F_snap"
    /\ LET h == HeadOf(fr[t].tab, fr[t].bucket)
       IN  /\ fr' = [fr EXCEPT ![t].pc = IF h = NULL THEN "F_cas" ELSE "F_scan",
                               ![t].depth = 0, ![t].expected = h, ![t].curr = h]
           /\ mem' = IF h = NULL THEN [mem EXCEPT ![fr[t].add_item].next = h] ELSE mem
    /\ UNCHANGED <<cfg, resize_needed, tbl, hist, gh, ctx>>

\* insert_fscan that frees the node it has overwritten instead of its own
insert_fscan_free_curr(t) ==
    /\ fr[t].pc = "F_scan"
    /\ LET curr == fr[t].curr
       IN  IF Match(curr, fr[t].key)
           THEN /\ mem' = [mem EXCEPT ![curr] = FreeItem]
                /\ fr' = [fr EXCEPT ![t] = IdleFrame]
                /\ NoteReturn(t)
           ELSE /\ fr' = [fr EXCEPT ![t].depth = @ + 1, ![t].curr = mem[curr].next,
                              ![t].pc = IF mem[curr].next = NULL THEN "F_cas"
                                        ELSE "F_scan"]
                /\ mem' = IF mem[curr].next = NULL
                          THEN [mem EXCEPT ![fr[t].add_item].next = fr[t].expected]
                          ELSE mem
                /\ UNCHANGED <<hist, gh>>
    /\ UNCHANGED <<cfg, resize_needed, tbl, ctx>>

\* lock-free: one iteration of the scan. A match is overwritten with an atomic
\* write, the unused node is freed and insert returns; past the end of the
\* chain add_item->next = expected
insert_fscan(t) ==
    /\ fr[t].pc = "F_scan"
    /\ LET curr == fr[t].curr
       IN  IF Match(curr, fr[t].key)
           THEN /\ mem' = [Overwrite(curr, fr[t].value) EXCEPT
                                ![fr[t].add_item] = FreeItem]
                /\ fr' = [fr EXCEPT ![t] = IdleFrame]
                /\ NoteReturn(t)
           ELSE /\ fr' = [fr EXCEPT ![t].depth = @ + 1, ![t].curr = mem[curr].next,
                              ![t].pc = IF mem[curr].next = NULL THEN "F_cas"
                                        ELSE "F_scan"]
                /\ mem' = IF mem[curr].next = NULL
                          THEN [mem EXCEPT ![fr[t].add_item].next = fr[t].expected]
                          ELSE mem
                /\ UNCHANGED <<hist, gh>>
    /\ UNCHANGED <<cfg, resize_needed, tbl, ctx>>

\* insert_cas with the comparison of the capture left out
insert_cas_blind(t) ==
    /\ fr[t].pc = "F_cas"
    /\ tbl' = SetHead(fr[t].tab, fr[t].bucket, fr[t].add_item)
    /\ fr' = [fr EXCEPT ![t].pc = "I_count"]
    /\ UNCHANGED <<cfg, resize_needed, mem, hist, gh, ctx>>

\* insert_cas with a retry that reloads the head without scanning the chain
insert_cas_norescan(t) ==
    /\ fr[t].pc = "F_cas"
    /\ LET old_head == HeadOf(fr[t].tab, fr[t].bucket)
       IN  IF old_head = fr[t].expected
           THEN /\ tbl' = SetHead(fr[t].tab, fr[t].bucket, fr[t].add_item)
                /\ fr' = [fr EXCEPT ![t].pc = "I_count"]
                /\ UNCHANGED <<mem, contended>>
           ELSE /\ tbl' = tbl
                /\ fr' = [fr EXCEPT ![t].expected = old_head]
                /\ mem' = [mem EXCEPT ![fr[t].add_item].next = old_head]
                /\ contended' = TRUE
    /\ UNCHANGED <<cfg, resize_needed, written, known, stable, ndone, rz_snap, it_snap,
                   gh, ctx>>

\* insert_cas with a capture that fails whatever the head is
insert_cas_spurious(t) ==
    /\ fr[t].pc = "F_cas"
    /\ fr' = [fr EXCEPT ![t].pc = "F_snap"]
    /\ contended' = TRUE
    /\ UNCHANGED <<cfg, resize_needed, mem, tbl, written, known, stable, ndone,
                   rz_snap, it_snap, gh, ctx>>

\* lock-free: atomic compare capture on the bucket head
insert_cas(t) ==
    /\ fr[t].pc = "F_cas"
    /\ LET old_head == HeadOf(fr[t].tab, fr[t].bucket)
       IN  IF old_head = fr[t].expected
           THEN /\ tbl' = SetHead(fr[t].tab, fr[t].bucket, fr[t].add_item)
                /\ fr' = [fr EXCEPT ![t].pc = "I_count"]
                /\ contended' = contended
           ELSE /\ tbl' = tbl
                /\ fr' = [fr EXCEPT ![t].pc = "F_snap"]
                /\ contended' = TRUE
    /\ UNCHANGED <<cfg, resize_needed, mem, written, known, stable, ndone, rz_snap,
                   it_snap, gh, ctx>>

\* the test of the resize trigger after a new node
TriggersEarly(depth) == resize_enabled # 0 /\ depth >= 1

Triggers(depth) == resize_enabled # 0 /\ depth >= MAX_CHAIN_SIZE

\* omp atomic capture: current_items = ++chained->num_items
current_items_stale(num_items) == num_items

current_items(num_items) == num_items + 1

\* if (added_node): the counter, then the test of the resize trigger
insert_count(t) ==
    /\ fr[t].pc = "I_count"
    /\ tbl' = IF speed_test = 0
              THEN [tbl EXCEPT ![fr[t].tab].num_items = current_items(@)]
              ELSE tbl
    /\ IF Triggers(fr[t].depth)
       THEN /\ fr' = [fr EXCEPT ![t].pc = "I_trig"]
            /\ UNCHANGED <<hist, gh>>
       ELSE /\ fr' = [fr EXCEPT ![t] = IdleFrame]
            /\ NoteReturn(t)
    /\ UNCHANGED <<cfg, resize_needed, mem, ctx>>

\* omp atomic read: temp_resize = resize_needed
insert_trig(t) ==
    /\ fr[t].pc = "I_trig"
    /\ IF resize_needed = 0
       THEN /\ fr' = [fr EXCEPT ![t].pc = "I_set", ![t].temp_resize = resize_needed]
            /\ UNCHANGED <<hist, gh>>
       ELSE /\ fr' = [fr EXCEPT ![t] = IdleFrame]
            /\ NoteReturn(t)
    /\ UNCHANGED <<cfg, resize_needed, mem, tbl, ctx>>

\* omp atomic write: resize_needed = 1
insert_set(t) ==
    /\ fr[t].pc = "I_set"
    /\ resize_needed' = 1
    /\ fr' = [fr EXCEPT ![t] = IdleFrame]
    /\ NoteReturn(t)
    /\ UNCHANGED <<cfg, mem, tbl, ctx>>

-----------------------------------------------------------------------------
\* resize_insert (chained_locked.c 315-328, chained_lock_free.c 294-320)

\* entry: the bucket and the lock index in the new table; the lock-free variant
\* allocates its node here
resize_insert_call(t, T, key, value) ==
    /\ fr[t].pc = "idle"
    /\ LET bucket == BucketOf(T, key)
           base   == [IdleFrame EXCEPT !.tab = T, !.key = key, !.value = value,
                                       !.bucket = bucket]
       IN  IF variant = "locked"
           THEN /\ fr' = [fr EXCEPT ![t] =
                            [base EXCEPT !.pc = "R_lock",
                               !.lock_idx = get_lock_idx(tbl[T].num_locks, bucket)]]
                /\ mem' = mem
           ELSE /\ CanMalloc
                /\ fr' = [fr EXCEPT ![t] =
                            [base EXCEPT !.pc = "RF_snap", !.add_item = Malloc]]
                /\ mem' = [mem EXCEPT ![Malloc] = NewItem(key, value)]

\* striped: omp_set_lock
resize_insert_lock(t) ==
    /\ fr[t].pc = "R_lock"
    /\ LockHolder(fr[t].tab, fr[t].lock_idx) = 0
    /\ tbl' = SetLock(fr[t].tab, fr[t].lock_idx, t)
    /\ fr' = [fr EXCEPT ![t].pc = "R_link"]
    /\ UNCHANGED <<cfg, resize_needed, mem, hist, gh, ctx>>

\* striped: malloc, key, value, next = head, head = add_item
resize_insert_link(t) ==
    /\ fr[t].pc = "R_link"
    /\ CanMalloc
    /\ mem' = [mem EXCEPT ![Malloc] =
                 [NewItem(fr[t].key, fr[t].value) EXCEPT
                    !.next = HeadOf(fr[t].tab, fr[t].bucket)]]
    /\ tbl' = SetHead(fr[t].tab, fr[t].bucket, Malloc)
    /\ fr' = [fr EXCEPT ![t].pc = "R_unlock", ![t].add_item = Malloc]
    /\ UNCHANGED <<cfg, resize_needed, hist, gh, ctx>>

\* striped: omp_unset_lock, return
resize_insert_unlock(t) ==
    /\ fr[t].pc = "R_unlock"
    /\ tbl' = SetLock(fr[t].tab, fr[t].lock_idx, 0)
    /\ fr' = [fr EXCEPT ![t] = IdleFrame]
    /\ UNCHANGED <<cfg, resize_needed, mem, hist, gh, ctx>>

\* lock-free: expected = head; add_item->next = expected
resize_insert_snap(t) ==
    /\ fr[t].pc = "RF_snap"
    /\ LET h == HeadOf(fr[t].tab, fr[t].bucket)
       IN  /\ fr' = [fr EXCEPT ![t].pc = "RF_cas", ![t].expected = h]
           /\ mem' = [mem EXCEPT ![fr[t].add_item].next = h]
    /\ UNCHANGED <<cfg, resize_needed, tbl, hist, gh, ctx>>

\* lock-free: atomic compare capture on the bucket head of the new table; on
\* success resize_insert returns
resize_insert_cas(t) ==
    /\ fr[t].pc = "RF_cas"
    /\ LET old_head == HeadOf(fr[t].tab, fr[t].bucket)
       IN  IF old_head = fr[t].expected
           THEN /\ tbl' = SetHead(fr[t].tab, fr[t].bucket, fr[t].add_item)
                /\ fr' = [fr EXCEPT ![t] = IdleFrame]
           ELSE /\ tbl' = tbl
                /\ fr' = [fr EXCEPT ![t].pc = "RF_snap"]
    /\ UNCHANGED <<cfg, resize_needed, mem, hist, gh, ctx>>

-----------------------------------------------------------------------------
\* resize (chained_locked.c 335-372, chained_lock_free.c 327-363)

IdleWork == [pc |-> "user", curr_chained |-> 0, i |-> 0, hi |-> 0, rcurr |-> NULL,
             count |-> 0, temp_resize_needed |-> 0, chunk |-> 0]

\* the share of 0..n-1 that schedule(static) gives thread t of the team
StaticLo(t, n) ==
    LET q == n \div NumThreads
        r == n % NumThreads
    IN  IF t - 1 < r THEN (t - 1) * (q + 1) ELSE (t - 1) * q + r

\* a share that stops one bucket short
StaticHiShort(t, n) ==
    LET q == n \div NumThreads
        r == n % NumThreads
    IN  StaticLo(t, n) + (IF t - 1 < r THEN q + 1 ELSE q) - 1

StaticHi(t, n) ==
    LET q == n \div NumThreads
        r == n % NumThreads
    IN  StaticLo(t, n) + (IF t - 1 < r THEN q + 1 ELSE q)

\* the pairs a table holds, and what a sequential lookup finds in it
Pairs(T) == {<<mem[n].key, mem[n].value>> : n \in TableNodes(T)}

RECURSIVE Find(_, _)
Find(n, key) ==
    IF n = NULL THEN INVALID_VALUE
    ELSE IF mem[n].key = key THEN mem[n].value
    ELSE Find(mem[n].next, key)

\* lookup run alone on table T
LookupSeq(T, key) ==
    IF key = INVALID_KEY THEN INVALID_VALUE
    ELSE Find(HeadOf(T, hash1(key, tbl[T].num_buckets)), key)

Contents(T) == [pairs |-> Pairs(T), nodes |-> Cardinality(TableNodes(T)),
                finds |-> [k \in DOMAIN known |-> LookupSeq(T, k)]]

NoSnap == [pairs |-> {}, nodes |-> 0 - 1, finds |-> <<>>]

\* no iteration of the main loop has reached its barrier yet
NoIter == [needed |-> 0, table |-> NULL, num_buckets |-> 0]

\* ChainedHashTable* curr_chained = *chained_pointer; then the barrier of line 340
resize_call(t) ==
    /\ fr[t].pc = "idle"
    /\ wk' = [wk EXCEPT ![t] = [IdleWork EXCEPT !.pc = "rz_b1", !.curr_chained = chained]]
    /\ UNCHANGED <<cfg, resize_needed, mem, tbl, chained, next_chained, fr,
                   single_taken, hist, gh>>
    /\ UNCHANGED drv

\* the sizes of the replacement table: both are doubled
next_num_buckets_plus1(n) == n + 1

next_num_buckets(n) == n * 2

next_num_locks(n) == n * 2

\* the first omp single: the doubled table, with num_items copied
resize_single1(t) ==
    /\ wk[t].pc = "rz_single1"
    /\ wk' = [wk EXCEPT ![t].pc = "rz_b2"]
    /\ IF single_taken
       THEN UNCHANGED <<tbl, next_chained, single_taken>>
       ELSE LET old == tbl[wk[t].curr_chained]
                new == create_table(next_num_buckets(old.num_buckets),
                                    next_num_locks(old.num_locks))
            IN  /\ tbl' = [tbl EXCEPT ![FreeTable] =
                             [new EXCEPT !.num_items = old.num_items]]
                /\ next_chained' = FreeTable
                /\ single_taken' = TRUE
    /\ UNCHANGED <<cfg, resize_needed, mem, chained, fr, ncalls, nresize, hist, gh>>
    /\ UNCHANGED drv

\* resize_for without the barrier at the end of the omp for
resize_for_nowait(t) ==
    /\ wk[t].pc = "rz_for"
    /\ IF wk[t].i >= wk[t].hi
       THEN /\ wk' = [wk EXCEPT ![t].pc = "rz_single2"]
            /\ UNCHANGED <<mem, fr>>
       ELSE LET h == HeadOf(wk[t].curr_chained, wk[t].i)
            IN  IF h = NULL
                THEN /\ wk' = [wk EXCEPT ![t].i = @ + 1]
                     /\ UNCHANGED <<mem, fr>>
                ELSE /\ wk' = [wk EXCEPT ![t].pc = "rz_ins", ![t].rcurr = h]
                     /\ resize_insert_call(t, next_chained, mem[h].key, mem[h].value)
    /\ UNCHANGED <<cfg, resize_needed, tbl, chained, next_chained, single_taken,
                   ncalls, nresize, hist, gh>>
    /\ UNCHANGED drv

\* omp for: the head of the thread's next old bucket and the first
\* resize_insert of its chain, or the end of the thread's share
resize_for(t) ==
    /\ wk[t].pc = "rz_for"
    /\ IF wk[t].i >= wk[t].hi
       THEN /\ wk' = [wk EXCEPT ![t].pc = "rz_b4"]
            /\ UNCHANGED <<mem, fr>>
       ELSE LET h == HeadOf(wk[t].curr_chained, wk[t].i)
            IN  IF h = NULL
                THEN /\ wk' = [wk EXCEPT ![t].i = @ + 1]
                     /\ UNCHANGED <<mem, fr>>
                ELSE /\ wk' = [wk EXCEPT ![t].pc = "rz_ins", ![t].rcurr = h]
                     /\ resize_insert_call(t, next_chained, mem[h].key, mem[h].value)
    /\ UNCHANGED <<cfg, resize_needed, tbl, chained, next_chained, single_taken,
                   ncalls, nresize, hist, gh>>
    /\ UNCHANGED drv

\* resize_insert has returned: curr = curr->next, and the next resize_insert or
\* the next bucket
resize_next(t) ==
    /\ wk[t].pc = "rz_ins"
    /\ fr[t].pc = "idle"
    /\ LET n == mem[wk[t].rcurr].next
       IN  IF n = NULL
           THEN /\ wk' = [wk EXCEPT ![t].pc = "rz_for", ![t].i = @ + 1,
                                    ![t].rcurr = NULL]
                /\ UNCHANGED <<mem, fr>>
           ELSE /\ wk' = [wk EXCEPT ![t].rcurr = n]
                /\ resize_insert_call(t, next_chained, mem[n].key, mem[n].value)
    /\ UNCHANGED <<cfg, resize_needed, tbl, chained, next_chained, single_taken,
                   ncalls, nresize, hist, gh>>
    /\ UNCHANGED drv

\* the second omp single: swap the handle, destroy the old table, clear the flag
resize_single2(t) ==
    /\ wk[t].pc = "rz_single2"
    /\ wk' = [wk EXCEPT ![t].pc = "rz_b5"]
    /\ IF single_taken
       THEN UNCHANGED <<mem, tbl, chained, next_chained, single_taken, resize_needed>>
       ELSE /\ chained' = next_chained
            /\ mem' = destroy_mem(wk[t].curr_chained)
            /\ tbl' = [tbl EXCEPT ![wk[t].curr_chained] = NoTable]
            /\ next_chained' = NULL
            /\ resize_needed' = 0
            /\ single_taken' = TRUE
    /\ UNCHANGED <<cfg, fr, ncalls, nresize, hist, gh>>
    /\ UNCHANGED drv

\* the pcs at which a thread waits in a barrier, and where each leads
AfterBarrier(pc) ==
    CASE pc = "rz_b1" -> "rz_single1"
      [] pc = "rz_b2" -> "rz_b3"
      [] pc = "rz_b3" -> "rz_for"
      [] pc = "rz_b4" -> "rz_single2"
      [] pc = "rz_b5" -> "rz_b6"
      [] pc = "rz_b6" -> "rz_ret"
      [] pc = "d_sb" -> "d_taskwait"
      [] pc = "d_b1" -> "d_check"
      [] pc = "d_b2" -> "d_test"
      [] pc = "d_end" -> "d_out"
      [] OTHER -> pc

AtBarrier(t) == AfterBarrier(wk[t].pc) # wk[t].pc

\* the explicit tasks, queued or running, created by the threads of P
PendingNone(P) == {}

Pending(P) ==
    {c \in pool : c.parent \in P}
      \cup {[chunk |-> tk[t].chunk, parent |-> tk[t].parent] :
               t \in {u \in Threads : tk[u].active /\ tk[u].parent \in P}}

\* every thread of the team is waiting in a barrier and every explicit task of
\* the team is complete
BarrierReady == (\A t \in Threads : AtBarrier(t)) /\ Pending(Threads) = {}

\* omp barrier: every thread of the team has arrived
barrier ==
    /\ BarrierReady
    /\ wk' = [t \in Threads |->
                LET to == AfterBarrier(wk[t].pc)
                IN  IF to = "rz_for"
                    THEN [wk[t] EXCEPT !.pc = to,
                            !.i = StaticLo(t, tbl[wk[t].curr_chained].num_buckets),
                            !.hi = StaticHi(t, tbl[wk[t].curr_chained].num_buckets)]
                    ELSE [wk[t] EXCEPT !.pc = to]]
    /\ single_taken' = FALSE
    /\ rz_snap' = IF \A t \in Threads : wk[t].pc = "rz_b1"
                  THEN Contents(chained) ELSE rz_snap
    /\ it_snap' = IF \E t \in Threads : wk[t].pc = "d_b1"
                  THEN [needed |-> resize_needed, table |-> chained,
                        num_buckets |-> tbl[chained].num_buckets]
                  ELSE it_snap
    /\ UNCHANGED <<cfg, resize_needed, mem, tbl, chained, next_chained, fr, ncalls,
                   nresize, written, known, stable, ndone, contended, gh>>
    /\ UNCHANGED drv

-----------------------------------------------------------------------------
\* The table's interface called by a team of threads: any thread may start a
\* lookup or an insert; resize is entered by every thread.

\* keys of a chain of MAX_CHAIN_SIZE nodes built before the run
PrefillKeys == {U64(10 + i) : i \in 1..MAX_CHAIN_SIZE}

\* the heap after insert(11, 1); ...; insert(18, 1) on an empty one-bucket table
PrefillMem ==
    [n \in NodeIds |->
        IF n <= MAX_CHAIN_SIZE
        THEN [key |-> U64(10 + n), value |-> U64(1), next |-> n - 1, live |-> TRUE]
        ELSE FreeItem]

\* the runs explored: the variant, the flags -r and -s (resize_enabled is 1 and
\* speed_test 0 by default; run.sh passes both flags), the arguments of
\* create_table, whether the run starts from the prefilled chain, and the
\* calls already made
Configs ==
    {[variant |-> "lockfree", re |-> 1, st |-> 0, nb |-> 1, nl |-> 1,
      prefill |-> FALSE, calls |-> 0],
     [variant |-> "locked", re |-> 1, st |-> 0, nb |-> 1, nl |-> 1,
      prefill |-> FALSE, calls |-> 0],
     [variant |-> "locked", re |-> 1, st |-> 0, nb |-> 2, nl |-> 1,
      prefill |-> FALSE, calls |-> 0],
     [variant |-> "lockfree", re |-> 0, st |-> 1, nb |-> 2, nl |-> 1,
      prefill |-> FALSE, calls |-> 0],
     [variant |-> "lockfree", re |-> 1, st |-> 0, nb |-> 1, nl |-> 1,
      prefill |-> TRUE, calls |-> MaxCalls - PrefillCalls],
     [variant |-> "locked", re |-> 1, st |-> 0, nb |-> 1, nl |-> 1,
      prefill |-> TRUE, calls |-> MaxCalls - PrefillCalls]}

InitTable(c) ==
    IF c.prefill
    THEN [create_table(c.nb, c.nl) EXCEPT
            !.buckets = <<MAX_CHAIN_SIZE>>,
            !.num_items = IF c.st = 0 THEN MAX_CHAIN_SIZE ELSE 0]
    ELSE create_table(c.nb, c.nl)

InitConfig(c) ==
    /\ variant = c.variant
    /\ resize_enabled = c.re
    /\ speed_test = c.st
    /\ resize_needed = 0
    /\ chained = 1
    /\ next_chained = NULL
    /\ fr = [t \in Threads |-> IdleFrame]
    /\ gh = [t \in Threads |-> IdleGhost]
    /\ single_taken = FALSE
    /\ ncalls = c.calls
    /\ nresize = 0
    /\ rz_snap = NoSnap
    /\ it_snap = NoIter
    /\ hcall = NoCall
    /\ opt = NoOpt
    /\ stream = NoStream
    /\ contended = FALSE
    /\ mem = IF c.prefill THEN PrefillMem ELSE [n \in NodeIds |-> FreeItem]
    /\ tbl = [T \in TableIds |-> IF T = 1 THEN InitTable(c) ELSE NoTable]
    /\ LET ks == IF c.prefill THEN Keys \cup PrefillKeys ELSE Keys
       IN  /\ written = [k \in ks |-> IF k \in Keys THEN {} ELSE {U64(1)}]
           /\ known = [k \in ks |-> TRUE]
           /\ stable = [k \in ks |-> IF k \in Keys THEN INVALID_VALUE ELSE U64(1)]
           /\ ndone = [k \in ks |-> k \notin Keys]

\* MetricObject run_metrics = {0}, and the temp_ counters of a task
NoMetrics == [total_ops |-> 0, total_lookups |-> 0, successful_lookups |-> 0,
              missed_lookups |-> 0, total_inserts |-> 0, failed_match |-> 0]

IdleTask == [active |-> FALSE, chunk |-> 0, cursor |-> 0, parent |-> 0,
             temp |-> NoMetrics]

NoDriver ==
    /\ end_of_file = 0
    /\ file = <<>>
    /\ fpos = 0
    /\ pool = {}
    /\ tk = [t \in Threads |-> IdleTask]
    /\ run_metrics = NoMetrics

Init ==
    /\ wk = [t \in Threads |-> IdleWork]
    /\ NoDriver
    /\ \E c \in Configs : InitConfig(c)

\* the callers are interchangeable: the lowest-numbered free thread makes the
\* next call
Free(t) == wk[t].pc = "user" /\ fr[t].pc = "idle"

NextCaller(t) == Free(t) /\ \A u \in Threads : u < t => ~Free(u)

CanCall(t) == NextCaller(t) /\ ncalls < MaxCalls

api_lookup(t) ==
    /\ CanCall(t)
    /\ \E key \in Keys \cup {INVALID_KEY} : lookup_call(t, chained, key)
    /\ ncalls' = ncalls + 1
    /\ UNCHANGED <<chained, next_chained, wk, single_taken, nresize>>
    /\ UNCHANGED drv

api_insert(t) ==
    /\ CanCall(t)
    /\ \E key \in Keys \cup {INVALID_KEY}, value \in Values \cup {INVALID_VALUE} :
          insert_call(t, chained, key, value)
    /\ ncalls' = ncalls + 1
    /\ UNCHANGED <<chained, next_chained, wk, single_taken, nresize>>
    /\ UNCHANGED drv

api_lookup_return(t) ==
    /\ wk[t].pc = "user"
    /\ lookup_return(t)
    /\ UNCHANGED ctx

api_insert_return(t) ==
    /\ wk[t].pc = "user"
    /\ insert_return(t)
    /\ UNCHANGED ctx

\* resize is called between operations, as main.c calls it between its barriers
api_resize(t) ==
    /\ NextCaller(t)
    /\ \A u \in Threads : fr[u].pc = "idle"
    /\ LET first == \A u \in Threads : wk[u].pc # "rz_b1"
       IN  /\ first => nresize < MaxResizes
           /\ nresize' = IF first THEN nresize + 1 ELSE nresize
    /\ resize_call(t)
    /\ UNCHANGED ncalls
    /\ UNCHANGED drv

api_resize_return(t) ==
    /\ wk[t].pc = "rz_ret"
    /\ wk' = [wk EXCEPT ![t] = IdleWork]
    /\ rz_snap' = NoSnap
    /\ UNCHANGED it_snap
    /\ UNCHANGED <<cfg, resize_needed, mem, tbl, chained, next_chained, fr,
                   single_taken, ncalls, nresize, written, known, stable, ndone,
                   contended, gh>>
    /\ UNCHANGED drv

\* the steps inside the table's operations
OpStep(t) ==
    \/ lookup_lock(t) \/ lookup_head(t) \/ lookup_walk(t) \/ lookup_unlock(t)
    \/ insert_lock(t) \/ insert_scan(t) \/ insert_unlock_upd(t) \/ insert_alloc(t)
    \/ insert_pub(t) \/ insert_unlock(t) \/ insert_snap(t) \/ insert_fscan(t)
    \/ insert_cas(t) \/ insert_count(t) \/ insert_trig(t) \/ insert_set(t)
    \/ resize_insert_lock(t) \/ resize_insert_link(t) \/ resize_insert_unlock(t)
    \/ resize_insert_snap(t) \/ resize_insert_cas(t)

ResizeStep(t) ==
    \/ resize_single1(t) \/ resize_for(t) \/ resize_next(t) \/ resize_single2(t)

Next ==
    \/ \E t \in Threads :
        \/ api_lookup(t) \/ api_insert(t) \/ api_lookup_return(t)
        \/ api_insert_return(t) \/ api_resize(t) \/ api_resize_return(t)
        \/ OpStep(t) \/ ResizeStep(t)
    \/ barrier

Spec == Init /\ [][Next]_vars

-----------------------------------------------------------------------------
\* Properties of the table's operations, checked under Spec.

\* no operation and no resize is in flight
Quiescent == \A t \in Threads : Free(t)

LiveTables == {T \in TableIds : tbl[T].live}

BucketsOf(T) == 0..(tbl[T].num_buckets - 1)

\* the keys with an accepted insert that has returned
DoneKeys == {k \in DOMAIN known : ndone[k]}

\* C1: at a quiescent point lookup(k) gives the value of the most recent
\* completed insert(k, .), or INVALID_VALUE if k was never inserted; a lookup
\* that ran with no other operation in flight returns exactly that value.
C1_QuiescentLookup ==
    /\ Quiescent =>
         \A k \in DOMAIN known :
            /\ known[k] => LookupSeq(chained, k) = stable[k]
            /\ written[k] = {} => LookupSeq(chained, k) = INVALID_VALUE
    /\ \A t \in Threads :
         (/\ fr[t].pc = "L_ret"
          /\ gh[t].want_known
          /\ \A u \in Threads \ {t} : Free(u))
         => /\ fr[t].ret = gh[t].want
            /\ fr[t].ret = LookupSeq(chained, fr[t].key)

\* C1 witness: a lookup that ran alone returns the second of two values
\* inserted one after the other for its key
C1_Witness ==
    \E t \in Threads :
        /\ fr[t].pc = "L_ret"
        /\ gh[t].want_known
        /\ \A u \in Threads \ {t} : Free(u)
        /\ fr[t].key \in Keys
        /\ Cardinality(written[fr[t].key]) = 2
        /\ fr[t].ret = stable[fr[t].key]
        /\ fr[t].ret # INVALID_VALUE

\* C2: inserts of distinct keys that run concurrently are never lost: every
\* key whose insert has returned is found with a value written for it, and
\* with metrics on, at a quiescent point num_items is the number of keys
\* inserted.
C2_NoLostInsert ==
    /\ \A k \in DoneKeys : LookupSeq(chained, k) \in written[k]
    /\ (Quiescent /\ speed_test = 0) =>
         /\ tbl[chained].num_items = Cardinality(DoneKeys)
         /\ Cardinality(TableNodes(chained)) = Cardinality(DoneKeys)

\* C2 witness: two inserts of distinct keys met on one bucket head, one lost
\* the compare-and-swap, and both keys are in the table
C2_Witness ==
    /\ variant = "lockfree"
    /\ speed_test = 0
    /\ Quiescent
    /\ contended
    /\ ncalls = 2
    /\ \A k \in Keys : ndone[k] /\ LookupSeq(chained, k) \in Values
    /\ tbl[chained].num_items = 2

\* C3: a lookup(k) returns a value some insert(k, .) wrote or INVALID_VALUE;
\* INVALID_VALUE only if no insert(k, .) had returned when the lookup began;
\* and the value v of an insert(k, v) that returned without overlapping
\* another insert(k, .), if no insert(k, .) began since.
C3_PerKeyLinearizable ==
    \A t \in Threads :
        (fr[t].pc = "L_ret" /\ fr[t].key \in DOMAIN known) =>
            /\ fr[t].ret \in written[fr[t].key] \cup {INVALID_VALUE}
            /\ fr[t].ret = INVALID_VALUE => ~gh[t].done_before
            /\ gh[t].want_known => fr[t].ret = gh[t].want

\* C3 witness: a lookup that began after one insert of its key had returned
\* and overlapped a second insert of the key with another value
C3_Witness ==
    \E t \in Threads :
        /\ fr[t].pc = "L_ret"
        /\ fr[t].key \in Keys
        /\ gh[t].done_before
        /\ ~gh[t].want_known
        /\ Cardinality(written[fr[t].key]) = 2
        /\ fr[t].ret \in written[fr[t].key]

\* the threads that are past the swap of a resize
PastSwap(t) == wk[t].pc \in {"rz_b5", "rz_b6", "rz_ret"}

\* C4: a resize preserves the contents: the pairs of the old table are the
\* pairs of the new one, each in exactly one node, and every lookup gives what
\* it gave before.
C4_ResizePreserves ==
    (rz_snap # NoSnap /\ \E t \in Threads : PastSwap(t)) =>
        /\ Contents(chained) = rz_snap
        /\ Cardinality(Pairs(chained)) = Cardinality(TableNodes(chained))

\* C4 witness: a resize has moved at least two pairs into a table in which they
\* fill more than one bucket
C4_Witness ==
    /\ rz_snap # NoSnap
    /\ \A t \in Threads : wk[t].pc = "rz_ret"
    /\ rz_snap.nodes >= 2
    /\ Cardinality({b \in BucketsOf(chained) : HeadOf(chained, b) # NULL}) >= 2

\* the keys along a chain
ChainKeys(T, b) == [i \in DOMAIN ChainOf(T, b) |-> mem[ChainOf(T, b)[i]].key]

NoDup(seq) == \A i, j \in DOMAIN seq : seq[i] = seq[j] => i = j

\* C6: in every chain of every table a key appears at most once, at all times,
\* inserts of one key running concurrently and resizes included.
C6_UniqueKeys ==
    \A T \in LiveTables : \A b \in BucketsOf(T) : NoDup(ChainKeys(T, b))

\* C6 witness: two inserts of one key with different values contended for the
\* bucket head, and the table has since been resized
C6_Witness ==
    /\ Quiescent
    /\ contended
    /\ ncalls = 2
    /\ nresize = 1
    /\ \E k \in Keys : Cardinality(written[k]) = 2 /\ LookupSeq(chained, k) \in written[k]

\* C7: every node of a chain is in the bucket its key hashes to under the
\* table's bucket count, in the published table and in the one a resize fills.
C7_Placement ==
    \A T \in LiveTables : \A b \in BucketsOf(T) :
        \A i \in DOMAIN ChainOf(T, b) :
            hash1(mem[ChainOf(T, b)[i]].key, tbl[T].num_buckets) = b

\* C7 witness: after a resize the doubled table holds nodes in two buckets
C7_Witness ==
    /\ Quiescent
    /\ nresize = 1
    /\ tbl[chained].num_buckets = 2
    /\ \A b \in BucketsOf(chained) : HeadOf(chained, b) # NULL

\* what a rejected call must leave alone
TableState == <<mem, tbl, resize_needed>>

HoldsLock(t) ==
    \E T \in LiveTables : \E l \in 0..(tbl[T].num_locks - 1) : LockHolder(T, l) = t

C8_State ==
    /\ \A t \in Threads :
        /\ fr[t].pc \in InsertPcs => ~Rejected(fr[t].key, fr[t].value)
        /\ fr[t].pc = "I_ret" => Rejected(fr[t].key, fr[t].value) /\ ~HoldsLock(t)
        /\ (fr[t].pc \in LookupPcs /\ fr[t].key = INVALID_KEY) =>
              /\ fr[t].pc = "L_ret"
              /\ fr[t].ret = INVALID_VALUE
              /\ ~HoldsLock(t)
    /\ \A n \in NodeIds :
        mem[n].live => mem[n].key # INVALID_KEY /\ mem[n].value # INVALID_VALUE
    /\ \A k \in Keys : written[k] = {} => LookupSeq(chained, k) = INVALID_VALUE

C8_Step ==
    \A t \in Threads :
        (/\ fr'[t] # fr[t]
         /\ \/ fr[t].pc = "I_ret" \/ fr'[t].pc = "I_ret"
            \/ (fr[t].pc = "L_ret" /\ fr[t].key = INVALID_KEY)
            \/ (fr'[t].pc = "L_ret" /\ fr'[t].key = INVALID_KEY))
        => UNCHANGED TableState

\* C8: insert(INVALID_KEY, v) and insert(k, INVALID_VALUE) return without
\* taking a lock and leave the chains, num_items and resize_needed as they
\* were; no node ever holds a sentinel; lookup(INVALID_KEY) returns
\* INVALID_VALUE; a key with no accepted insert is looked up as INVALID_VALUE.
C8_SentinelRejection == [](C8_State) /\ [][C8_Step]_vars

\* C8 witness: insert(k, INVALID_VALUE) for a valid key has returned while
\* another thread is inside an accepted insert
C8_Witness ==
    \E t, u \in Threads :
        /\ fr[t].pc = "I_ret"
        /\ fr[t].key \in Keys
        /\ fr[t].value = INVALID_VALUE
        /\ fr[u].pc \in InsertPcs
        /\ written[fr[t].key] = {}

\* the positions of an insert at which it has not linked a node
PreAddPcs == {"I_lock", "I_scan", "I_alloc", "I_pub", "I_unlock_upd",
              "F_snap", "F_scan", "F_cas"}

\* thread t takes a step of an accepted insert that has not linked a node
InsertStep(t) ==
    /\ fr'[t] # fr[t]
    /\ \/ fr[t].pc \in PreAddPcs
       \/ fr[t].pc = "idle" /\ fr'[t].pc \in PreAddPcs

\* the frame of the insert that takes the step
StepFrame(t) == IF fr[t].pc = "idle" THEN fr'[t] ELSE fr[t]

\* the nodes of every chain, in order, and the counters
Shape == <<[T \in LiveTables |-> [b \in BucketsOf(T) |-> ChainOf(T, b)]],
           [T \in LiveTables |-> [b \in BucketsOf(T) |-> ChainKeys(T, b)]],
           [T \in LiveTables |-> tbl[T].num_items], resize_needed>>

\* the values along every chain
ShapeValues ==
    [T \in LiveTables |->
        [b \in BucketsOf(T) |->
            [i \in DOMAIN ChainOf(T, b) |-> mem[ChainOf(T, b)[i]].value]]]

C9_Step ==
    \A t \in Threads, k \in Keys, v \in Values :
        (/\ InsertStep(t)
         /\ StepFrame(t).key = k
         /\ StepFrame(t).value = v
         /\ LookupSeq(chained, k) # INVALID_VALUE)
        => /\ Shape' = Shape
           /\ (fr[t].pc # "idle" /\ fr'[t].pc = "idle") => LookupSeq(chained, k)' = v

\* C9: an insert(k, v2) of a key the table holds links and moves no node and
\* leaves the chain lengths, num_items and resize_needed as they were; when it
\* returns, lookup(k) gives v2.
C9_OverwriteInPlace == [][C9_Step]_vars

\* C9 witness: a second insert of a key, with another value, has returned and
\* the table holds one node
C9_Witness ==
    /\ Quiescent
    /\ ~contended
    /\ ncalls = 2
    /\ Cardinality(TableNodes(chained)) = 1
    /\ \E k \in Keys :
         /\ Cardinality(written[k]) = 2
         /\ known[k]
         /\ LookupSeq(chained, k) = stable[k]

C10_Step ==
    \A t \in Threads :
        (InsertStep(t)
         /\ LookupSeq(chained, StepFrame(t).key) = StepFrame(t).value)
        => /\ Shape' = Shape
           /\ ShapeValues' = ShapeValues

\* C10: insert(k, v) on a table that holds k with value v changes nothing: the
\* table after the second of two identical inserts is the table after the
\* first.
C10_Idempotent == [][C10_Step]_vars

\* C10 witness: a second insert(k, v) has found the node the first one left,
\* holding v
C10_Witness ==
    \E t \in Threads :
        /\ fr[t].pc \in {"I_unlock_upd", "F_scan"}
        /\ gh[t].op = "insert"
        /\ ndone[fr[t].key]
        /\ written[fr[t].key] = {fr[t].value}
        /\ fr[t].curr # NULL
        /\ mem[fr[t].curr].key = fr[t].key
        /\ mem[fr[t].curr].value = fr[t].value

-----------------------------------------------------------------------------
\* The driver: the parallel region of main (main.c 111-245).

MAX_TASK_POOL == 256

INIT_NUM_LOCKS_RATIO == 8

INIT_NUM_BUCKETS == 64

DEFAULT_NUM_THREADS == 16

\* a line of the data file as parse_line reads it
Line(op, key, value) == [op |-> op, key |-> U64(key), value |-> U64(value)]

\* a chunk of nine inserts that meet in the only bucket of a one-bucket table
\* and an insert of a key inserted before, then a chunk with a lookup and a
\* rejected insert
FileOneBucket ==
    << [i \in 1..(MAX_CHAIN_SIZE + 2) |->
          IF i <= MAX_CHAIN_SIZE + 1 THEN Line("I", i, 1) ELSE Line("I", 1, 2)],
       << Line("L", 1, 1), [op |-> "I", key |-> U64(1), value |-> INVALID_VALUE] >> >>

\* the same with keys that meet in one bucket of an eight-bucket table
FileEightBuckets ==
    << [i \in 1..(MAX_CHAIN_SIZE + 2) |->
          IF i <= MAX_CHAIN_SIZE + 1 THEN Line("I", 8 * i, 1) ELSE Line("I", 8, 2)],
       << Line("L", 8, 1), [op |-> "I", key |-> U64(8), value |-> INVALID_VALUE] >> >>

\* the runs of the driver explored: the variant, the flags, -b and the data file
DriverConfigs ==
    {[variant |-> "lockfree", re |-> 1, st |-> 0, nb |-> 1, file |-> FileOneBucket],
     [variant |-> "locked", re |-> 1, st |-> 0, nb |-> 8, file |-> FileEightBuckets],
     [variant |-> "lockfree", re |-> 0, st |-> 1, nb |-> 1, file |-> FileOneBucket]}

FileKeys(f) ==
    {f[c][i].key : <<c, i>> \in {<<c, i>> \in (DOMAIN f) \X (1..(MAX_CHAIN_SIZE + 2)) :
                                    i \in DOMAIN f[c]}} \ {INVALID_KEY}

\* main up to the parallel region: the table of line 107, every thread at the
\* loop test
InitRun(c) ==
    /\ variant = c.variant
    /\ resize_enabled = c.re
    /\ speed_test = c.st
    /\ resize_needed = 0
    /\ chained = 1
    /\ next_chained = NULL
    /\ fr = [t \in Threads |-> IdleFrame]
    /\ gh = [t \in Threads |-> IdleGhost]
    /\ single_taken = FALSE
    /\ ncalls = 0
    /\ nresize = 0
    /\ rz_snap = NoSnap
    /\ it_snap = NoIter
    /\ hcall = NoCall
    /\ opt = NoOpt
    /\ stream = NoStream
    /\ contended = FALSE
    /\ mem = [n \in NodeIds |-> FreeItem]
    /\ tbl = [T \in TableIds |->
                IF T = 1 THEN create_table(c.nb, c.nb \div INIT_NUM_LOCKS_RATIO)
                ELSE NoTable]
    /\ written = [k \in FileKeys(c.file) |-> {}]
    /\ known = [k \in FileKeys(c.file) |-> TRUE]
    /\ stable = [k \in FileKeys(c.file) |-> INVALID_VALUE]
    /\ ndone = [k \in FileKeys(c.file) |-> FALSE]
    /\ wk = [t \in Threads |-> [IdleWork EXCEPT !.pc = "d_test"]]
    /\ end_of_file = 0
    /\ file = c.file
    /\ fpos = 0
    /\ pool = {}
    /\ tk = [t \in Threads |-> IdleTask]
    /\ run_metrics = NoMetrics

InitDriver == \E c \in DriverConfigs : InitRun(c)

\* what a step of the main loop outside the table leaves alone
tab == <<cfg, mem, tbl, chained, next_chained, fr, ncalls, nresize, hist, gh>>

\* while (!end_of_file): an ordinary load of the flag
main_test(t) ==
    /\ wk[t].pc = "d_test"
    /\ ~tk[t].active
    /\ wk' = [wk EXCEPT ![t].pc = IF end_of_file = 0 THEN "d_single" ELSE "d_end"]
    /\ UNCHANGED <<tab, resize_needed, single_taken, drv>>

\* omp single: the first thread to arrive runs the block, the others go to the
\* barrier at its end
main_single(t) ==
    /\ wk[t].pc = "d_single"
    /\ ~tk[t].active
    /\ IF single_taken
       THEN /\ wk' = [wk EXCEPT ![t].pc = "d_sb"]
            /\ UNCHANGED single_taken
       ELSE /\ wk' = [wk EXCEPT ![t].pc = "d_read", ![t].count = 0,
                                ![t].temp_resize_needed = 0]
            /\ single_taken' = TRUE
    /\ UNCHANGED <<tab, resize_needed, drv>>

\* fread of the next chunk; zero bytes set end_of_file and leave the loop
main_fread(t) ==
    /\ wk[t].pc = "d_read"
    /\ ~tk[t].active
    /\ IF fpos = Len(file)
       THEN /\ end_of_file' = 1
            /\ wk' = [wk EXCEPT ![t].pc = "d_post"]
            /\ UNCHANGED fpos
       ELSE /\ fpos' = fpos + 1
            /\ wk' = [wk EXCEPT ![t].pc = "d_task", ![t].chunk = fpos + 1]
            /\ UNCHANGED end_of_file
    /\ UNCHANGED <<tab, resize_needed, single_taken, file, pool, tk, run_metrics>>

\* omp task: the task is queued, or the encountering thread runs it at once
main_task(t) ==
    /\ wk[t].pc = "d_task"
    /\ ~tk[t].active
    /\ \/ /\ pool' = pool \cup {[chunk |-> wk[t].chunk, parent |-> t]}
          /\ UNCHANGED tk
       \/ /\ tk' = [tk EXCEPT ![t] = [active |-> TRUE, chunk |-> wk[t].chunk,
                                      cursor |-> 1, parent |-> t,
                                      temp |-> NoMetrics]]
          /\ UNCHANGED pool
    /\ wk' = [wk EXCEPT ![t].pc = "d_after"]
    /\ UNCHANGED <<tab, resize_needed, single_taken, end_of_file, file, fpos, run_metrics>>

\* main_after with the pool bound tested one task late
main_after_late(t) ==
    /\ wk[t].pc = "d_after"
    /\ ~tk[t].active
    /\ LET count == wk[t].count + 1
       IN  wk' = [wk EXCEPT ![t] =
                    IF end_of_file # 0 THEN [@ EXCEPT !.pc = "d_post"]
                    ELSE IF count > MAX_TASK_POOL - 1
                    THEN [@ EXCEPT !.pc = "d_post", !.count = count]
                    ELSE [@ EXCEPT !.count = count,
                                   !.temp_resize_needed = resize_needed,
                                   !.pc = IF resize_needed # 0 THEN "d_post"
                                          ELSE "d_read"]]
    /\ UNCHANGED <<tab, resize_needed, single_taken, drv>>

\* after the task: if (end_of_file) break; count++; the pool bound; the atomic
\* read of resize_needed
main_after(t) ==
    /\ wk[t].pc = "d_after"
    /\ ~tk[t].active
    /\ LET count == wk[t].count + 1
       IN  wk' = [wk EXCEPT ![t] =
                    IF end_of_file # 0 THEN [@ EXCEPT !.pc = "d_post"]
                    ELSE IF count >= MAX_TASK_POOL - 1
                    THEN [@ EXCEPT !.pc = "d_post", !.count = count]
                    ELSE [@ EXCEPT !.count = count,
                                   !.temp_resize_needed = resize_needed,
                                   !.pc = IF resize_needed # 0 THEN "d_post"
                                          ELSE "d_read"]]
    /\ UNCHANGED <<tab, resize_needed, single_taken, drv>>

\* main_post that leaves the count out of its condition
main_post_nocount(t) ==
    /\ wk[t].pc = "d_post"
    /\ ~tk[t].active
    /\ end_of_file' = IF wk[t].temp_resize_needed = 0 THEN 1 ELSE end_of_file
    /\ wk' = [wk EXCEPT ![t].pc = "d_sb"]
    /\ UNCHANGED <<tab, resize_needed, single_taken, file, fpos, pool, tk, run_metrics>>

\* if (!(count == MAX_TASK_POOL - 1) && !(temp_resize_needed)) end_of_file = 1
main_post(t) ==
    /\ wk[t].pc = "d_post"
    /\ ~tk[t].active
    /\ end_of_file' = IF wk[t].count # MAX_TASK_POOL - 1 /\ wk[t].temp_resize_needed = 0
                      THEN 1 ELSE end_of_file
    /\ wk' = [wk EXCEPT ![t].pc = "d_sb"]
    /\ UNCHANGED <<tab, resize_needed, single_taken, file, fpos, pool, tk, run_metrics>>

\* omp taskwait: the children of the thread's own task are complete
main_taskwait(t) ==
    /\ wk[t].pc = "d_taskwait"
    /\ ~tk[t].active
    /\ Pending({t}) = {}
    /\ wk' = [wk EXCEPT ![t].pc = "d_b1"]
    /\ UNCHANGED <<tab, resize_needed, single_taken, drv>>

\* if (resize_needed)
NeedsResizeNever == FALSE

NeedsResize == resize_needed # 0

\* main_check that clears the flag before it calls resize
main_check_clears(t) ==
    /\ wk[t].pc = "d_check"
    /\ ~tk[t].active
    /\ IF NeedsResize
       THEN /\ wk' = [wk EXCEPT ![t] =
                        [IdleWork EXCEPT !.pc = "rz_b1", !.curr_chained = chained]]
            /\ resize_needed' = 0
            /\ UNCHANGED <<tab, single_taken, drv>>
       ELSE /\ wk' = [wk EXCEPT ![t].pc = "d_b2"]
            /\ UNCHANGED <<tab, resize_needed, single_taken, drv>>

\* if (resize_needed) resize(&chained); an ordinary load of the flag
main_check(t) ==
    /\ wk[t].pc = "d_check"
    /\ ~tk[t].active
    /\ IF NeedsResize
       THEN resize_call(t)
       ELSE /\ wk' = [wk EXCEPT ![t].pc = "d_b2"]
            /\ UNCHANGED <<tab, resize_needed, single_taken, drv>>
    /\ UNCHANGED <<ncalls, nresize>>

\* resize has returned: resize_needed = 0
main_resize_done(t) ==
    /\ wk[t].pc = "rz_ret"
    /\ ~tk[t].active
    /\ resize_needed' = 0
    /\ wk' = [wk EXCEPT ![t] = [IdleWork EXCEPT !.pc = "d_b2"]]
    /\ rz_snap' = NoSnap
    /\ UNCHANGED it_snap
    /\ UNCHANGED <<cfg, mem, tbl, chained, next_chained, fr, ncalls, nresize, written,
                   known, stable, ndone, contended, gh, single_taken, drv>>

\* temp_ops++, then temp_lookups++ for 'L' or temp_inserts++ for 'I'
Counted(m, op) ==
    [m EXCEPT !.total_ops = @ + 1,
              !.total_lookups = IF op = "L" THEN @ + 1 ELSE @,
              !.total_inserts = IF op = "I" THEN @ + 1 ELSE @]

\* the counts of a lookup result against the value on the line
Classified(m, lookup_val, value) ==
    IF lookup_val = INVALID_VALUE
    THEN [m EXCEPT !.missed_lookups = @ + 1]
    ELSE [m EXCEPT !.successful_lookups = @ + 1,
                   !.failed_match = IF lookup_val # value THEN @ + 1 ELSE @]

\* run_metrics = temp: the counts of the task replace the totals
FoldedOver(m, temp) == temp

\* run_metrics.x += temp_x for the six counters, each addition atomic
Folded(m, temp) ==
    [total_ops          |-> m.total_ops + temp.total_ops,
     total_lookups      |-> m.total_lookups + temp.total_lookups,
     successful_lookups |-> m.successful_lookups + temp.successful_lookups,
     missed_lookups     |-> m.missed_lookups + temp.missed_lookups,
     total_inserts      |-> m.total_inserts + temp.total_inserts,
     failed_match       |-> m.failed_match + temp.failed_match]

\* the task scheduling points at which a thread waits
SchedPcs == {"d_sb", "d_taskwait", "d_b1", "d_b2", "d_end",
             "rz_b1", "rz_b2", "rz_b3", "rz_b4", "rz_b5", "rz_b6"}

\* a waiting thread takes a queued task
task_start(t) ==
    /\ wk[t].pc \in SchedPcs
    /\ ~tk[t].active
    /\ \E c \in pool :
        /\ tk' = [tk EXCEPT ![t] = [active |-> TRUE, chunk |-> c.chunk, cursor |-> 1,
                                    parent |-> c.parent, temp |-> NoMetrics]]
        /\ pool' = pool \ {c}
    /\ UNCHANGED <<tab, resize_needed, wk, single_taken, end_of_file, file, fpos, run_metrics>>

\* the task's loop: parse_line, then lookup or insert on the shared handle
task_op(t) ==
    /\ tk[t].active
    /\ fr[t].pc = "idle"
    /\ tk[t].cursor <= Len(file[tk[t].chunk])
    /\ LET ln == file[tk[t].chunk][tk[t].cursor]
       IN  IF ln.op = "L"
           THEN lookup_call(t, chained, ln.key)
           ELSE insert_call(t, chained, ln.key, ln.value)
    /\ tk' = [tk EXCEPT ![t].cursor = @ + 1,
                        ![t].temp = Counted(@, file[tk[t].chunk][tk[t].cursor].op)]
    /\ UNCHANGED <<chained, next_chained, wk, single_taken, ncalls, nresize,
                   end_of_file, file, fpos, pool, run_metrics>>

\* lookup has returned to the task: if (!speed_test) the result is counted as
\* missed, or as successful and, when it differs from the value on the line,
\* as a failed match
task_lookup_ret(t) ==
    /\ tk[t].active
    /\ lookup_return(t)
    /\ tk' = [tk EXCEPT ![t].temp =
                 IF speed_test # 0 THEN @
                 ELSE Classified(@, fr[t].ret, file[tk[t].chunk][tk[t].cursor - 1].value)]
    /\ UNCHANGED <<chained, next_chained, wk, single_taken, ncalls, nresize,
                   end_of_file, file, fpos, pool, run_metrics>>

\* a rejected insert has returned to the task
task_insert_ret(t) ==
    /\ tk[t].active
    /\ insert_return(t)
    /\ UNCHANGED ctx

\* the end of the chunk: free(buffer); if (!speed_test) the six omp atomic
\* additions to run_metrics; the task is complete
task_end(t) ==
    /\ tk[t].active
    /\ fr[t].pc = "idle"
    /\ tk[t].cursor > Len(file[tk[t].chunk])
    /\ run_metrics' = IF speed_test # 0 THEN run_metrics
                      ELSE Folded(run_metrics, tk[t].temp)
    /\ tk' = [tk EXCEPT ![t] = IdleTask]
    /\ UNCHANGED <<tab, resize_needed, wk, single_taken, end_of_file, file, fpos, pool>>

\* a thread that is not inside a task goes on with resize
main_resize(t) ==
    /\ ~tk[t].active
    /\ ResizeStep(t)

DriverNext ==
    \/ \E t \in Threads :
        \/ main_test(t) \/ main_single(t) \/ main_fread(t) \/ main_task(t)
        \/ main_after(t) \/ main_post(t) \/ main_taskwait(t) \/ main_check(t)
        \/ main_resize_done(t) \/ task_start(t) \/ task_op(t)
        \/ task_lookup_ret(t) \/ task_insert_ret(t) \/ task_end(t)
        \/ OpStep(t) \/ main_resize(t)
    \/ barrier

SpecDriver == InitDriver /\ [][DriverNext]_vars

\* the thread is between its call of resize and its return
InResize(t) ==
    wk[t].pc \in {"rz_b1", "rz_single1", "rz_b2", "rz_b3", "rz_for", "rz_ins",
                  "rz_b4", "rz_single2", "rz_b5", "rz_b6", "rz_ret"}

\* the thread is inside lookup or insert
InOp(t) == fr[t].pc \in InsertPcs \cup LookupPcs \cup {"I_ret"}

\* C5: in the driver no lookup or insert straddles a resize: while any thread
\* is inside resize every task of the batch is complete, none is queued or
\* running, and no thread is inside lookup or insert.
C5_NoStraddle ==
    (\E t \in Threads : InResize(t)) =>
        /\ pool = {}
        /\ \A u \in Threads : ~tk[u].active /\ ~InOp(u)

\* C5 witness: a thread rehashes a chain while chunks of the file are still
\* unread: the batch was cut short by the trigger and its tasks have run
C5_Witness ==
    \E t \in Threads :
        /\ wk[t].pc = "rz_ins"
        /\ end_of_file = 0
        /\ fpos >= 1
        /\ fpos < Len(file)
        /\ Cardinality(TableNodes(chained)) > MAX_CHAIN_SIZE

-----------------------------------------------------------------------------
\* Further properties of the table.

\* seq ends with the sequence tail
EndsWith(seq, tail) ==
    /\ Len(seq) >= Len(tail)
    /\ \A i \in DOMAIN tail : seq[Len(seq) - Len(tail) + i] = tail[i]

C11_Step ==
    variant = "lockfree" =>
        \A T \in TableIds :
            (tbl[T].live /\ tbl'[T].live) =>
                \A b \in BucketsOf(T) :
                    /\ EndsWith(ChainOf(T, b)', ChainOf(T, b))
                    /\ \A i \in DOMAIN ChainOf(T, b) :
                        /\ mem'[ChainOf(T, b)[i]].live
                        /\ mem'[ChainOf(T, b)[i]].key = mem[ChainOf(T, b)[i]].key
                        /\ mem'[ChainOf(T, b)[i]].next = mem[ChainOf(T, b)[i]].next

\* C11: in the lock-free variant, as long as a table is not destroyed by a
\* resize, a node linked into one of its chains stays linked with its key and
\* its next field unchanged, and a chain changes only by a new node at its
\* head: every node a reader reached is still reachable from the bucket head.
C11_MonotoneChain == [][C11_Step]_vars

\* C11 witness: a lock-free reader stands on a node of a chain that has since
\* got a new head from an insert still in flight
C11_Witness ==
    /\ variant = "lockfree"
    /\ \E t, u \in Threads :
        /\ fr[t].pc = "L_walk"
        /\ fr[u].pc = "I_count"
        /\ fr[u].bucket = fr[t].bucket
        /\ HeadOf(chained, fr[t].bucket) = fr[u].add_item
        /\ mem[fr[u].add_item].next = fr[t].curr
        /\ fr[t].curr # NULL

Published == tbl[chained]

C12_State ==
    \A T \in LiveTables : tbl[T].num_buckets >= 1

C12_Step ==
    \* the sizes of a table are fixed while it lives
    /\ \A T \in TableIds :
        (tbl[T].live /\ tbl'[T].live) =>
            /\ tbl'[T].num_buckets = tbl[T].num_buckets
            /\ tbl'[T].num_locks = tbl[T].num_locks
    \* the table a resize allocates is twice the published one
    /\ (next_chained = NULL /\ next_chained' # NULL) =>
            /\ tbl'[next_chained'].num_buckets = 2 * Published.num_buckets
            /\ variant = "locked" =>
                  tbl'[next_chained'].num_locks = 2 * Published.num_locks
    \* the published sizes change only by the swap of a resize, to the double
    /\ \/ /\ Published'.num_buckets = Published.num_buckets
          /\ Published'.num_locks = Published.num_locks
       \/ /\ resize_enabled # 0
          /\ \E t \in Threads : wk[t].pc = "rz_single2"
          /\ chained' = next_chained
          /\ Published'.num_buckets = 2 * Published.num_buckets
          /\ variant = "locked" => Published'.num_locks = 2 * Published.num_locks

\* C12: every live table has at least one bucket; a resize replaces the
\* published table by one with exactly twice its buckets (and, with
\* striped locks, twice its locks); no other step changes the sizes, and
\* with resizing disabled the driver never changes them.
C12_Sizes == [](C12_State) /\ [][C12_Step]_vars

C12_Witness ==
    /\ variant = "locked"
    /\ chained # 1
    /\ next_chained = NULL
    /\ Published.num_buckets = 16
    /\ Published.num_locks = 2
    /\ \A t \in Threads : wk[t].pc = "d_b2"

C13_State ==
    (Quiescent /\ speed_test = 0) =>
        tbl[chained].num_items = Cardinality(TableNodes(chained))

C13_Step ==
    \* an insert that added a node counts it, once, as it leaves the counter
    /\ \A t \in Threads :
        (speed_test = 0 /\ fr[t].pc = "I_count" /\ fr'[t].pc # "I_count") =>
            tbl'[fr[t].tab].num_items = tbl[fr[t].tab].num_items + 1
    \* nothing else changes the counter of a table: not the overwrite of a
    \* value, not a rejected insert, not resize_insert
    /\ \A T \in TableIds :
        (tbl[T].live /\ tbl'[T].live
           /\ tbl'[T].num_items # tbl[T].num_items) =>
            /\ speed_test = 0
            /\ tbl'[T].num_items = tbl[T].num_items + 1
            /\ \E t \in Threads :
                /\ fr[t].pc = "I_count"
                /\ fr'[t].pc # "I_count"
                /\ fr[t].tab = T
                /\ \A u \in Threads \ {t} : fr'[u] = fr[u]
    \* resize copies the counter into the table it allocates and publishes
    /\ (next_chained = NULL /\ next_chained' # NULL) =>
            tbl'[next_chained'].num_items = Published.num_items
    /\ chained' # chained => Published'.num_items = Published.num_items

\* C13: with metrics on, at every quiescent point num_items is the number
\* of nodes of the table; an insert that added a node increments it exactly
\* once, also when inserts run concurrently; an insert that overwrote a
\* value or was rejected does not; resize copies it to the new table and
\* the re-inserts of resize leave it alone.
C13_ItemCount == [](C13_State) /\ [][C13_Step]_vars

C13_Witness ==
    /\ speed_test = 0
    /\ Quiescent
    /\ nresize = 1
    /\ contended
    /\ tbl[chained].num_items = Cardinality(TableNodes(chained))
    /\ tbl[chained].num_items >= 2
    /\ \E k \in Keys : Cardinality(written[k]) = 2

\* every thread is between the two barriers that close an iteration of the
\* main loop (main.c:236 and main.c:243)
BetweenBarriers ==
    \A t \in Threads : wk[t].pc \in {"d_check", "d_b2"} \/ InResize(t)

\* every thread waits at the second of them
AtSecondBarrier == \A t \in Threads : wk[t].pc = "d_b2"

C14_State ==
    /\ (AtSecondBarrier /\ it_snap.needed # 0) =>
          /\ chained # it_snap.table
          /\ Published.num_buckets = 2 * it_snap.num_buckets
          /\ resize_needed = 0
          /\ \A k \in DoneKeys : LookupSeq(chained, k) \in written[k]
    /\ (BetweenBarriers /\ it_snap.needed = 0) =>
          /\ chained = it_snap.table
          /\ Published.num_buckets = it_snap.num_buckets
          /\ next_chained = NULL
          /\ \A t \in Threads : ~InResize(t)

\* C14: if resize_needed is 1 when the barrier after the taskwait opens, one
\* resize runs in that iteration: when every thread waits at the iteration's
\* second barrier the table has twice the buckets it had at the first,
\* resize_needed is 0 and every key inserted so far is still found; if
\* resize_needed is 0 at the first barrier the table is not replaced.
C14_ResizePerIteration == C14_State

C14_Witness ==
    /\ AtSecondBarrier
    /\ it_snap.needed = 1
    /\ chained # it_snap.table
    /\ Published.num_buckets = 2 * it_snap.num_buckets
    /\ resize_needed = 0
    /\ Cardinality(DoneKeys) > MAX_CHAIN_SIZE

-----------------------------------------------------------------------------
\* hash1 called on its own, with keys whose product wraps around 2^64.

\* limbs of the keys: 0x06EB3E45306EB3E3 is the largest key whose product
\* with 37 fits 64 bits once 13 is added
HashKeys ==
    {<<a, b, c, d>> : a \in {0, 1771, 1772, Limb - 1}, b \in {0, 15941, Limb - 1},
                      c \in {0, 12398}, d \in {0, 1, 5, 9, 46051, 46052, Limb - 1}}

HashBuckets == 1..MaxHashBuckets \cup {64, 1000, 2 ^ 15}

rest == <<resize_needed, mem, tbl, chained, next_chained, fr, wk, single_taken,
          ncalls, nresize, hist, gh, drv>>

\* no table exists
NoTables ==
    /\ resize_needed = 0
    /\ chained = NULL
    /\ next_chained = NULL
    /\ mem = [n \in NodeIds |-> FreeItem]
    /\ tbl = [T \in TableIds |-> NoTable]
    /\ fr = [t \in Threads |-> IdleFrame]
    /\ gh = [t \in Threads |-> IdleGhost]
    /\ wk = [t \in Threads |-> IdleWork]
    /\ single_taken = FALSE
    /\ ncalls = 0
    /\ nresize = 0
    /\ rz_snap = NoSnap
    /\ it_snap = NoIter
    /\ contended = FALSE
    /\ written = [k \in Keys |-> {}]
    /\ known = [k \in Keys |-> TRUE]
    /\ stable = [k \in Keys |-> INVALID_VALUE]
    /\ ndone = [k \in Keys |-> FALSE]
    /\ NoDriver

InitHash ==
    /\ variant \in {"locked", "lockfree"}
    /\ resize_enabled = 1
    /\ speed_test = 0
    /\ opt = NoOpt
    /\ stream = NoStream
    /\ NoTables
    /\ \E key \in HashKeys, num_buckets \in HashBuckets :
         hcall = [pc |-> "h_call", key |-> key, num_buckets |-> num_buckets, ret |-> 0]

\* hash1 of chained_locked.c
hash1_locked_call ==
    /\ variant = "locked"
    /\ hcall.pc = "h_call"
    /\ hcall' = [hcall EXCEPT !.pc = "h_ret",
                               !.ret = hash1(hcall.key, hcall.num_buckets)]
    /\ UNCHANGED <<variant, resize_enabled, speed_test, opt, stream, rest>>

\* hash1 of chained_lock_free.c
hash1_lock_free_call ==
    /\ variant = "lockfree"
    /\ hcall.pc = "h_call"
    /\ hcall' = [hcall EXCEPT !.pc = "h_ret",
                               !.ret = hash1_lock_free(hcall.key, hcall.num_buckets)]
    /\ UNCHANGED <<variant, resize_enabled, speed_test, opt, stream, rest>>

NextHash == hash1_locked_call \/ hash1_lock_free_call

SpecHash == InitHash /\ [][NextHash]_vars

\* the multiple of 2^64 that key * 37 + 13 exceeds 2^64 - 1 by: the carry out
\* of the top limb
Wraps(key) ==
    LET c0 == (key[4] * 37 + 13) \div Limb
        c1 == (key[3] * 37 + c0) \div Limb
        c2 == (key[2] * 37 + c1) \div Limb
    IN  (key[1] * 37 + c2) \div Limb

\* 2^64 mod n
TwoTo64Mod(n) ==
    LET p16 == Limb % n
        p32 == (p16 * p16) % n
    IN  (p32 * p32) % n

\* ((key * 37 + 13) mod 2^64) mod n, from the residue of key: the product is
\* key * 37 + 13 - Wraps(key) * 2^64
WrappedResidue(key, n) ==
    (((ModU64(key, n) * 37 + 13) % n) + Wraps(key) * (n - TwoTo64Mod(n))) % n

\* ((key * 37) + 13) mod n without the wrap-around
UnwrappedResidue(key, n) == (ModU64(key, n) * 37 + 13) % n

\* C15: hash1(k, B) is ((k * 37) + 13) mod B, the product and the sum taken
\* in 64-bit arithmetic that wraps around; the two variants compute the same
\* index, and the index lies in 0..B-1.
C15_Hash ==
    hcall.pc = "h_ret" =>
        /\ hcall.ret = WrappedResidue(hcall.key, hcall.num_buckets)
        /\ hcall.ret \in 0..(hcall.num_buckets - 1)
        /\ hash1(hcall.key, hcall.num_buckets)
             = hash1_lock_free(hcall.key, hcall.num_buckets)

\* C15 witness: a key whose product wraps, with a number of buckets for which
\* the wrap-around changes the index
C15_Witness ==
    /\ hcall.pc = "h_ret"
    /\ Wraps(hcall.key) > 0
    /\ hcall.ret = WrappedResidue(hcall.key, hcall.num_buckets)
    /\ hcall.ret # UnwrappedResidue(hcall.key, hcall.num_buckets)

-----------------------------------------------------------------------------
\* Three keys inserted into a table of four buckets, resizing disabled.

ExampleInserts ==
    <<[key |-> U64(1), value |-> U64(100)], [key |-> U64(5), value |-> U64(500)],
      [key |-> U64(9), value |-> U64(900)]>>

ExampleKeys == {ExampleInserts[i].key : i \in DOMAIN ExampleInserts}

\* the variant, the flag -s and the arguments of create_table
ExampleTables ==
    {[variant |-> "lockfree", st |-> 0, nb |-> 4, nl |-> 1],
     [variant |-> "lockfree", st |-> 1, nb |-> 4, nl |-> 1],
     [variant |-> "locked", st |-> 0, nb |-> 4, nl |-> 1],
     [variant |-> "locked", st |-> 1, nb |-> 4, nl |-> 2],
     [variant |-> "locked", st |-> 0, nb |-> 4, nl |-> 4]}

InitChain ==
    \E c \in ExampleTables :
        /\ variant = c.variant
        /\ resize_enabled = 0
        /\ speed_test = c.st
        /\ hcall = NoCall
        /\ opt = NoOpt
        /\ stream = NoStream
        /\ resize_needed = 0
        /\ chained = 1
        /\ next_chained = NULL
        /\ mem = [n \in NodeIds |-> FreeItem]
        /\ tbl = [T \in TableIds |->
                    IF T = 1 THEN create_table(c.nb, c.nl) ELSE NoTable]
        /\ fr = [t \in Threads |-> IdleFrame]
        /\ gh = [t \in Threads |-> IdleGhost]
        /\ wk = [t \in Threads |-> IdleWork]
        /\ single_taken = FALSE
        /\ ncalls = 0
        /\ nresize = 0
        /\ rz_snap = NoSnap
        /\ it_snap = NoIter
        /\ contended = FALSE
        /\ written = [k \in ExampleKeys |-> {}]
        /\ known = [k \in ExampleKeys |-> TRUE]
        /\ stable = [k \in ExampleKeys |-> INVALID_VALUE]
        /\ ndone = [k \in ExampleKeys |-> FALSE]
        /\ NoDriver

\* the next insert of the list is called by a thread that is outside the table
example_insert(t) ==
    /\ Free(t)
    /\ ncalls < Len(ExampleInserts)
    /\ insert_call(t, chained, ExampleInserts[ncalls + 1].key,
                   ExampleInserts[ncalls + 1].value)
    /\ ncalls' = ncalls + 1
    /\ UNCHANGED <<chained, next_chained, wk, single_taken, nresize>>
    /\ UNCHANGED drv

\* the steps of an insert that adds a node, resizing disabled
NextChain ==
    \E t \in Threads :
        \/ example_insert(t)
        \/ insert_lock(t) \/ insert_scan(t) \/ insert_alloc(t) \/ insert_pub(t)
        \/ insert_unlock(t) \/ insert_snap(t) \/ insert_cas(t) \/ insert_count(t)

SpecChain == InitChain /\ [][NextChain]_vars

\* every insert of the list has returned
ExampleDone == ncalls = Len(ExampleInserts) /\ Quiescent

\* the keys 1, 5 and 9 hash to bucket b of four, and once the three inserts
\* have returned bucket b holds one chain of the three pairs and the other
\* buckets are empty
OneChainIn(b) ==
    /\ \A k \in ExampleKeys : hash1(k, tbl[chained].num_buckets) = b
    /\ ExampleDone =>
          /\ Len(ChainOf(chained, b)) = Len(ExampleInserts)
          /\ {[key |-> mem[n].key, value |-> mem[n].value] :
                 n \in Range(ChainOf(chained, b))} = Range(ExampleInserts)
          /\ \A o \in BucketsOf(chained) \ {b} : HeadOf(chained, o) = NULL

-----------------------------------------------------------------------------
\* main before the parallel region: the options (main.c 56-92).

\* the characters of an option's argument: a sign, digits, anything else
OptChars == {"-", "0", "1", "x"}

Digit(ch) == IF ch = "1" THEN 1 ELSE 0

RECURSIVE OptStrings(_)
OptStrings(len) ==
    IF len = 0 THEN {<<>>}
    ELSE {Append(s, ch) : s \in OptStrings(len - 1), ch \in OptChars}

\* the arguments given to -b and -t
OptArgs == UNION {OptStrings(len) : len \in 1..MaxOptLen}

\* the decimal digits of s from position i on, up to the first other character
RECURSIVE Digits(_, _, _)
Digits(s, i, acc) ==
    IF i > Len(s) \/ s[i] \notin {"0", "1"} THEN acc
    ELSE Digits(s, i + 1, acc * 10 + Digit(s[i]))

\* atoi: an optional sign, then the digits; 0 if there are none
atoi(s) ==
    IF Len(s) > 0 /\ s[1] = "-" THEN 0 - Digits(s, 2, 0) ELSE Digits(s, 1, 0)

\* case 'b': only the value 0 is replaced by the default
initial_buckets_of(v) == IF v = 0 THEN INIT_NUM_BUCKETS ELSE v

\* case 't'
num_threads_of(v) == IF v < 1 THEN DEFAULT_NUM_THREADS ELSE v

InitOpts ==
    /\ variant \in {"locked", "lockfree"}
    /\ resize_enabled = 1
    /\ speed_test = 0
    /\ hcall = NoCall
    /\ stream = NoStream
    /\ opt = [pc |-> "getopt", n |-> 0, b |-> <<>>, t |-> <<>>,
              initial_buckets |-> INIT_NUM_BUCKETS,
              num_threads |-> DEFAULT_NUM_THREADS]
    /\ NoTables

MoreOpts == opt.pc = "getopt" /\ opt.n < MaxOptions

main_opt_b ==
    /\ MoreOpts
    /\ \E optarg \in OptArgs :
         opt' = [opt EXCEPT !.n = @ + 1, !.b = optarg,
                            !.initial_buckets = initial_buckets_of(atoi(optarg))]
    /\ UNCHANGED <<variant, resize_enabled, speed_test, hcall, stream, rest>>

main_opt_t ==
    /\ MoreOpts
    /\ \E optarg \in OptArgs :
         opt' = [opt EXCEPT !.n = @ + 1, !.t = optarg,
                            !.num_threads = num_threads_of(atoi(optarg))]
    /\ UNCHANGED <<variant, resize_enabled, speed_test, hcall, stream, rest>>

main_opt_r ==
    /\ MoreOpts
    /\ resize_enabled' = 0
    /\ opt' = [opt EXCEPT !.n = @ + 1]
    /\ UNCHANGED <<variant, speed_test, hcall, stream, rest>>

main_opt_s ==
    /\ MoreOpts
    /\ speed_test' = 1
    /\ opt' = [opt EXCEPT !.n = @ + 1]
    /\ UNCHANGED <<variant, resize_enabled, hcall, stream, rest>>

\* default: an option getopt does not know: exit(1)
main_opt_default ==
    /\ MoreOpts
    /\ opt' = [opt EXCEPT !.pc = "exit"]
    /\ UNCHANGED <<variant, resize_enabled, speed_test, hcall, stream, rest>>

\* getopt returns -1: omp_set_num_threads(num_threads), and the values reach
\* create_table
main_opt_end ==
    /\ opt.pc = "getopt"
    /\ opt' = [opt EXCEPT !.pc = "parsed"]
    /\ UNCHANGED <<variant, resize_enabled, speed_test, hcall, stream, rest>>

NextOpts ==
    \/ main_opt_b \/ main_opt_t \/ main_opt_r \/ main_opt_s
    \/ main_opt_default \/ main_opt_end

SpecOpts == InitOpts /\ [][NextOpts]_vars

\* C17 as stated: every -b value below 1, zero or negative, is reset to 64
\* and every -t value below 1 is reset to 16.
C17_Original ==
    /\ (opt.b # <<>> /\ atoi(opt.b) < 1) => opt.initial_buckets = INIT_NUM_BUCKETS
    /\ (opt.t # <<>> /\ atoi(opt.t) < 1) => opt.num_threads = DEFAULT_NUM_THREADS

\* what the option handling does: -b 0 (or a -b without digits) gives 64, any
\* other -b value is kept, negative ones too; every -t value below 1 gives 16
C17_Options ==
    /\ (opt.b # <<>> /\ atoi(opt.b) = 0) => opt.initial_buckets = INIT_NUM_BUCKETS
    /\ (opt.b # <<>> /\ atoi(opt.b) # 0) => opt.initial_buckets = atoi(opt.b)
    /\ (opt.t # <<>> /\ atoi(opt.t) < 1) => opt.num_threads = DEFAULT_NUM_THREADS
    /\ (opt.t # <<>> /\ atoi(opt.t) >= 1) => opt.num_threads = atoi(opt.t)

\* a negative -b value reaches create_table
C17_Witness ==
    /\ opt.pc = "parsed"
    /\ atoi(opt.b) < 0
    /\ opt.initial_buckets = atoi(opt.b)
    /\ atoi(opt.t) < 0
    /\ opt.num_threads = DEFAULT_NUM_THREADS

-----------------------------------------------------------------------------
\* The resize trigger and the bucket locks.

\* thread t ends its insert in this step
InsertReturns(t) == fr[t].pc \in InsertPcs /\ fr'[t].pc = "idle"

\* the node of thread t's insert is on the chain of its bucket
AddedNode(t) ==
    /\ fr[t].add_item # NULL
    /\ fr[t].add_item \in Range(ChainOf(fr[t].tab, fr[t].bucket))

C18_Step ==
    \* a change of the flag by a step of lookup or insert is the write of 1
    \* by an insert that added a node behind at least MAX_CHAIN_SIZE others
    /\ (resize_needed' # resize_needed /\ fr' # fr) =>
          /\ resize_needed' = 1
          /\ \E t \in Threads :
              /\ fr[t].pc = "I_set"
              /\ InsertReturns(t)
              /\ resize_enabled # 0
              /\ fr[t].depth >= MAX_CHAIN_SIZE
              /\ AddedNode(t)
              /\ Len(ChainOf(fr[t].tab, fr[t].bucket)) > MAX_CHAIN_SIZE
    \* an insert that added a node at that depth leaves the flag at 1
    /\ \A t \in Threads :
          (InsertReturns(t) /\ AddedNode(t) /\ resize_enabled # 0
             /\ fr[t].pc \in {"I_count", "I_trig", "I_set"}
             /\ fr[t].depth >= MAX_CHAIN_SIZE) =>
              resize_needed' = 1

\* C18: an insert sets resize_needed to 1 exactly when it added a node,
\* resizing is enabled and the scan of its successful attempt passed at
\* least MAX_CHAIN_SIZE nodes; an insert that overwrites in place, scans
\* fewer nodes, runs with resizing disabled or is rejected leaves
\* resize_needed alone, and no insert writes 0 to it.
C18_Trigger == [][C18_Step]_vars

\* C18 witness: in the driver the flag has been set by the insert that added
\* the ninth node of a chain, and the task that made the insert still runs
C18_Witness ==
    /\ resize_needed = 1
    /\ resize_enabled = 1
    /\ \A t \in Threads : ~InResize(t) /\ fr[t].pc = "idle"
    /\ \E t \in Threads : tk[t].active
    /\ \E b \in BucketsOf(chained) : Len(ChainOf(chained, b)) = MAX_CHAIN_SIZE + 1

\* the positions of lookup, insert and resize_insert (striped) at which the
\* thread is between omp_set_lock and omp_unset_lock: it reads or writes the
\* head of its bucket and the nodes of the chain
LockedPcs == {"L_walk", "L_unlock", "I_scan", "I_unlock_upd", "I_alloc", "I_pub",
              "I_unlock", "R_link", "R_unlock"}

InChain(t) == fr[t].pc \in LockedPcs

\* the lock that guards bucket b of table T
LockOf(T, b) == b % tbl[T].num_locks

C19_State ==
    variant = "locked" =>
        /\ \A t \in Threads :
              InChain(t) =>
                /\ tbl[fr[t].tab].live
                /\ tbl[fr[t].tab].num_locks >= 1
                /\ LockHolder(fr[t].tab, LockOf(fr[t].tab, fr[t].bucket)) = t
                /\ fr[t].pc \in {"L_walk", "I_scan"} =>
                      fr[t].curr \in Range(ChainOf(fr[t].tab, fr[t].bucket))
        /\ \A t, u \in Threads :
              (t # u /\ InChain(t) /\ InChain(u) /\ fr[t].tab = fr[u].tab) =>
                  fr[t].bucket # fr[u].bucket

C19_Step ==
    variant = "locked" =>
        \A T \in TableIds :
            (tbl[T].live /\ tbl'[T].live) =>
                \A b \in BucketsOf(T) :
                    (\/ HeadOf(T, b)' # HeadOf(T, b)
                     \/ \E n \in Range(ChainOf(T, b)) : mem'[n] # mem[n]) =>
                        \E t \in Threads :
                            /\ LockHolder(T, LockOf(T, b)) = t
                            /\ fr[t].tab = T
                            /\ fr[t].bucket = b
                            /\ fr'[t] # fr[t]
                            /\ \A u \in Threads \ {t} : fr'[u] = fr[u]

\* C19: with striped locks, lookup, insert and resize_insert read and write
\* the head of bucket b and the nodes of its chain only while the thread
\* holds lock (b mod num_locks) of that table, so two operations on one
\* bucket never access its chain at the same time.
C19_MutualExclusion == [](C19_State) /\ [][C19_Step]_vars

\* C19 witness: in a table with two locks a thread scans a chain under its
\* lock while another thread waits for that lock
C19_Witness ==
    /\ variant = "locked"
    /\ \E t, u \in Threads :
        /\ fr[t].pc = "I_scan"
        /\ fr[u].pc \in {"L_lock", "I_lock"}
        /\ fr[u].tab = fr[t].tab
        /\ tbl[fr[t].tab].num_locks = 2
        /\ fr[u].lock_idx = fr[t].lock_idx
        /\ fr[t].lock_idx = 1

\* the locks thread t holds, over all live tables
LocksHeld(t) ==
    {<<T, l>> \in TableIds \X (0..3) :
        tbl[T].live /\ l < tbl[T].num_locks /\ LockHolder(T, l) = t}

\* thread t waits in omp_set_lock
Blocked(t) == fr[t].pc \in {"L_lock", "I_lock", "R_lock"}

\* a striped table of four buckets and one lock after insert(3, 1) and
\* insert(1, 1): key 3 is in bucket 0, key 1 in bucket 2, and in the table of
\* eight buckets and two locks that a resize builds both are under lock 0
InitRehash ==
    /\ variant = "locked"
    /\ resize_enabled = 1
    /\ speed_test = 0
    /\ hcall = NoCall
    /\ opt = NoOpt
    /\ stream = NoStream
    /\ resize_needed = 0
    /\ chained = 1
    /\ next_chained = NULL
    /\ fr = [t \in Threads |-> IdleFrame]
    /\ gh = [t \in Threads |-> IdleGhost]
    /\ wk = [t \in Threads |-> IdleWork]
    /\ single_taken = FALSE
    /\ ncalls = MaxCalls - 1
    /\ nresize = 0
    /\ rz_snap = NoSnap
    /\ it_snap = NoIter
    /\ contended = FALSE
    /\ mem = [n \in NodeIds |->
                IF n = 1 THEN [key |-> U64(3), value |-> U64(1), next |-> NULL,
                               live |-> TRUE]
                ELSE IF n = 2 THEN [key |-> U64(1), value |-> U64(1), next |-> NULL,
                                    live |-> TRUE]
                ELSE FreeItem]
    /\ tbl = [T \in TableIds |->
                IF T = 1
                THEN [create_table(4, 1) EXCEPT !.buckets = <<1, NULL, 2, NULL>>,
                                                !.num_items = 2]
                ELSE NoTable]
    /\ LET ks == Keys \cup {U64(3)}
           in == {U64(1), U64(3)}
       IN  /\ written = [k \in ks |-> IF k \in in THEN {U64(1)} ELSE {}]
           /\ known = [k \in ks |-> TRUE]
           /\ stable = [k \in ks |-> IF k \in in THEN U64(1) ELSE INVALID_VALUE]
           /\ ndone = [k \in ks |-> k \in in]
    /\ NoDriver

InitFair == Init \/ InitRehash

\* every thread that can take a step of lookup, insert or resize_insert is
\* eventually scheduled
SpecFair == InitFair /\ [][Next]_vars /\ \A t \in Threads : WF_vars(OpStep(t))

C20_State ==
    variant = "locked" =>
        \A t \in Threads :
            /\ Cardinality(LocksHeld(t)) <= 1
            /\ Blocked(t) => LocksHeld(t) = {}
            /\ LocksHeld(t) # {} => InChain(t)

\* C20: with striped locks a thread holds at most one bucket lock in every
\* reachable state, in lookup, insert and resize_insert alike, and holds none
\* while it waits for one; every thread that waits for a lock eventually
\* acquires it when every thread that can run is eventually scheduled.
C20_DeadlockFree ==
    /\ [](C20_State)
    /\ \A t \in Threads : (variant = "locked" /\ Blocked(t)) ~> InChain(t)

\* C20 witness: a thread waits in omp_set_lock of resize_insert for the lock
\* another thread holds on the new table
C20_Witness ==
    /\ variant = "locked"
    /\ \E t, u \in Threads :
        /\ fr[t].pc = "R_lock"
        /\ fr[u].pc \in {"R_link", "R_unlock"}
        /\ fr[u].tab = fr[t].tab
        /\ LockHolder(fr[t].tab, fr[t].lock_idx) = u
        /\ LocksHeld(t) = {}
        /\ Cardinality(LocksHeld(u)) = 1

-----------------------------------------------------------------------------
\* Release of the locks, progress of the lock-free operations, reclamation.

\* the positions of the striped insert after omp_unset_lock: the counter and
\* the resize trigger
AfterUnlockPcs == {"I_count", "I_trig", "I_set"}

C21_State ==
    variant = "locked" =>
        \A t \in Threads :
            (fr[t].pc \in {"idle", "L_ret", "I_ret"} \cup AfterUnlockPcs) =>
                LocksHeld(t) = {}

C21_Step ==
    variant = "locked" =>
        \A t \in Threads :
            \* the lock is released in the step that leaves the chain
            /\ (InChain(t) /\ ~InChain(t)') =>
                  /\ fr[t].pc \in {"L_unlock", "I_unlock_upd", "I_unlock", "R_unlock"}
                  /\ LockHolder(fr[t].tab, fr[t].lock_idx) = t
                  /\ tbl'[fr[t].tab].locks[fr[t].lock_idx + 1] = 0
            \* the counter and the flag are written by a thread without a lock
            /\ (fr'[t] # fr[t] /\ fr[t].pc \in AfterUnlockPcs) => LocksHeld(t) = {}
            /\ (fr'[t] # fr[t]
                  /\ \/ resize_needed' # resize_needed
                     \/ \E T \in TableIds : tbl[T].live /\ tbl'[T].live
                           /\ tbl'[T].num_items # tbl[T].num_items) =>
                  /\ fr[t].pc \in AfterUnlockPcs
                  /\ LocksHeld(t) = {}

\* C21: the striped lookup and insert release the lock they took on every
\* way out (key found, key absent, value overwritten, node added): a thread
\* whose operation has returned holds no lock, and the update of num_items
\* and the resize trigger run after the lock is released.
C21_LockReleased == [](C21_State) /\ [][C21_Step]_vars

\* C21 witness: a thread that added a node is about to count it, and the
\* lock of its bucket is already held by another thread
C21_Witness ==
    /\ variant = "locked"
    /\ \E t, u \in Threads :
        /\ t # u
        /\ fr[t].pc = "I_count"
        /\ InChain(u)
        /\ fr[u].tab = fr[t].tab
        /\ fr[u].lock_idx = fr[t].lock_idx
        /\ LocksHeld(t) = {}

\* thread t is in an attempt of the lock-free insert, its snapshot taken
Attempting(t) == fr[t].pc \in {"F_scan", "F_cas"}

\* thread t is inside the lock-free insert, before its node is linked
InsertingLockFree(t) == fr[t].pc \in {"F_snap", "F_scan", "F_cas"}

\* the nodes linked on the bucket of thread t since it took its snapshot
LinkedSince(t) ==
    Range(ChainOf(fr[t].tab, fr[t].bucket)) \ Range(Chain(fr[t].expected))

C22_State ==
    variant = "lockfree" =>
        \A t \in Threads :
            Attempting(t) =>
                \* the chain is the snapshot with newer nodes in front of it,
                \* none of them the thread's own
                /\ EndsWith(ChainOf(fr[t].tab, fr[t].bucket), Chain(fr[t].expected))
                /\ fr[t].add_item \notin Range(ChainOf(fr[t].tab, fr[t].bucket))
                /\ (HeadOf(fr[t].tab, fr[t].bucket) # fr[t].expected) =>
                      LinkedSince(t) # {}

C22_Step ==
    variant = "lockfree" =>
        \* a compare-and-swap fails only when nodes were linked since the
        \* snapshot; it succeeds when none was
        /\ \A t \in Threads :
              fr[t].pc = "F_cas" =>
                /\ fr'[t].pc = "F_snap" =>
                      (LinkedSince(t) # {} /\ HeadOf(fr[t].tab, fr[t].bucket) \in LinkedSince(t))
                /\ (fr'[t] # fr[t] /\ LinkedSince(t) = {}) =>
                      tbl'[fr[t].tab].buckets[fr[t].bucket + 1] = fr[t].add_item
        \* a head changes only by the successful compare-and-swap of one thread
        /\ \A T \in TableIds :
              (tbl[T].live /\ tbl'[T].live) =>
                \A b \in BucketsOf(T) :
                    HeadOf(T, b)' # HeadOf(T, b) =>
                        \E t \in Threads :
                            /\ fr[t].pc \in {"F_cas", "RF_cas"}
                            /\ fr[t].tab = T /\ fr[t].bucket = b
                            /\ HeadOf(T, b) = fr[t].expected
                            /\ tbl'[T].buckets[b + 1] = fr[t].add_item
                            /\ \A u \in Threads \ {t} : fr'[u] = fr[u]

\* C22: in the lock-free insert the compare-and-swap of an attempt fails only
\* if the compare-and-swap of another thread on the same bucket succeeded
\* after the attempt took its snapshot, so among the threads that contend on
\* a bucket one completes; every insert in flight completes when the threads
\* that can run are scheduled and the other threads start finitely many
\* inserts.
C22_LockFreeProgress ==
    /\ [](C22_State)
    /\ [][C22_Step]_vars
    /\ \A t \in Threads :
          (variant = "lockfree" /\ InsertingLockFree(t)) ~> ~InsertingLockFree(t)

\* C22 witness: a thread is about to fail its compare-and-swap: the node of
\* another thread, already counted, was linked in front of its snapshot
C22_Witness ==
    /\ variant = "lockfree"
    /\ \E t, u \in Threads :
        /\ fr[t].pc = "F_cas"
        /\ fr[u].pc = "I_count"
        /\ fr[u].tab = fr[t].tab /\ fr[u].bucket = fr[t].bucket
        /\ HeadOf(fr[t].tab, fr[t].bucket) = fr[u].add_item
        /\ mem[fr[u].add_item].next = fr[t].expected
        /\ LinkedSince(t) = {fr[u].add_item}

\* the nodes thread t's lookup has still to visit at most
ToVisit(t) == Len(Chain(fr[t].curr))

C23_State ==
    variant = "lockfree" =>
        \A t \in Threads :
            \* the lookup can always take its next step
            /\ fr[t].pc = "L_head" => ENABLED lookup_head(t)
            /\ fr[t].pc = "L_walk" =>
                  /\ ENABLED lookup_walk(t)
                  /\ fr[t].curr # NULL
                  /\ EndsWith(ChainOf(fr[t].tab, fr[t].bucket), Chain(fr[t].curr))

C23_Step ==
    variant = "lockfree" =>
        \A t \in Threads :
            \* the load of the head: the whole chain is to visit, no more
            /\ (fr[t].pc = "L_head" /\ fr'[t] # fr[t]) =>
                  /\ fr'[t].curr = HeadOf(fr[t].tab, fr[t].bucket)
                  /\ fr'[t].pc \in {"L_walk", "L_ret"}
            \* a visit: the lookup returns or one node less is left, and it
            \* never goes back to the head
            /\ (fr[t].pc = "L_walk" /\ fr'[t] # fr[t]) =>
                  \/ fr'[t].pc = "L_ret"
                  \/ /\ fr'[t].pc = "L_walk"
                     /\ ToVisit(t)' = ToVisit(t) - 1
            \* the steps of the other threads leave the nodes to visit alone
            /\ (fr[t].pc = "L_walk" /\ fr'[t] = fr[t]) =>
                  Chain(fr[t].curr)' = Chain(fr[t].curr)
            \* the lookup writes neither nodes nor tables
            /\ (fr[t].pc \in {"L_head", "L_walk", "L_ret"} /\ fr'[t] # fr[t]) =>
                  (mem' = mem /\ tbl' = tbl)

\* C23: the lookup of the lock-free variant visits at most as many nodes as
\* the chain held when it loaded the bucket head, whatever the other threads
\* insert meanwhile; it never starts over, is never blocked and writes
\* nothing to the table.
C23_WaitFreeLookup == [](C23_State) /\ [][C23_Step]_vars

\* C23 witness: a lookup is in the middle of a chain whose head another
\* thread has replaced since the lookup loaded it
C23_Witness ==
    /\ variant = "lockfree"
    /\ \E t \in Threads :
        /\ fr[t].pc = "L_walk"
        /\ ToVisit(t) >= 1
        /\ ToVisit(t) + 2 <= Len(ChainOf(fr[t].tab, fr[t].bucket))
        /\ \E u \in Threads \ {t} :
              /\ fr[u].pc = "I_count"
              /\ HeadOf(fr[t].tab, fr[t].bucket) = fr[u].add_item

--------------------------------------------------------------------------------
\* main after the parallel region (main.c 246-259)

\* the thread that runs main and is thread 0 of the team
Master == 1

\* the end of the parallel region is passed: the printfs, then
\* destroy_table(chained)
main_destroy(t) ==
    /\ t = Master
    /\ wk[t].pc = "d_out"
    /\ mem' = destroy_mem(chained)
    /\ tbl' = [tbl EXCEPT ![chained] = NoTable]
    /\ wk' = [wk EXCEPT ![t].pc = "d_exit"]
    /\ UNCHANGED <<cfg, resize_needed, chained, next_chained, fr, single_taken,
                   ncalls, nresize, hist, gh, drv>>

MainNext == DriverNext \/ main_destroy(Master)

\* the steps of thread t: the driver, its tasks, the table operations, resize
MainStep(t) ==
    \/ main_test(t) \/ main_single(t) \/ main_fread(t) \/ main_task(t)
    \/ main_after(t) \/ main_post(t) \/ main_taskwait(t) \/ main_check(t)
    \/ main_resize_done(t) \/ task_start(t) \/ task_op(t)
    \/ task_lookup_ret(t) \/ task_insert_ret(t) \/ task_end(t)
    \/ OpStep(t) \/ main_resize(t) \/ main_destroy(t)

\* the whole run of main from the parallel region on; every thread that can
\* take a step eventually does, and a barrier that is complete opens
SpecMain ==
    /\ InitDriver
    /\ [][MainNext]_vars
    /\ \A t \in Threads : WF_vars(MainStep(t))
    /\ WF_vars(barrier)

\* the nodes the operation or the rehash of thread t holds a pointer to
Derefs(t) ==
    ((IF fr[t].pc # "idle" THEN {fr[t].curr, fr[t].add_item, fr[t].expected} ELSE {})
        \cup {wk[t].rcurr}) \ {NULL}

\* the nodes some bucket head of a live table leads to
Reachable == UNION {TableNodes(T) : T \in LiveTables}

C24_State ==
    /\ \A n \in Reachable : mem[n].live
    /\ \A t \in Threads :
        /\ \A n \in Derefs(t) : mem[n].live
        /\ fr[t].pc # "idle" => tbl[fr[t].tab].live
        /\ wk[t].pc \in {"rz_for", "rz_ins"} => tbl[wk[t].curr_chained].live

C24_Step ==
    \A n \in NodeIds :
        (mem[n].live /\ ~mem'[n].live) =>
            \* destroy_table of the old table at the end of resize, or of the
            \* table at the end of main, with no operation in flight
            \/ \E T \in TableIds :
                  /\ tbl[T].live /\ ~tbl'[T].live
                  /\ n \in TableNodes(T)
                  /\ \A t \in Threads : fr[t].pc = "idle" /\ ~tk[t].active
                  /\ \/ \E t \in Threads :
                           /\ wk[t].pc = "rz_single2" /\ wk[t].curr_chained = T
                           /\ chained' # T
                     \/ wk[Master].pc = "d_out" /\ T = chained
            \* the node of the lock-free insert that found its key in the chain
            \/ /\ variant = "lockfree"
               /\ n \notin Reachable
               /\ \E t \in Threads :
                     /\ fr[t].pc = "F_scan"
                     /\ fr[t].add_item = n
                     /\ Match(fr[t].curr, fr[t].key)
                     /\ \A u \in Threads \ {t} : n \notin Derefs(u)

\* C24: no node that a bucket head leads to, or that an operation in flight
\* holds a pointer to, is freed. Linked nodes are freed only by destroy_table,
\* on the old table at the end of resize or at the end of main, while no
\* operation is in flight; the lock-free insert that overwrites in place frees
\* only its own node, which was never linked.
C24_Reclamation == [](C24_State) /\ [][C24_Step]_vars

\* C24 witness: main has destroyed the table that replaced the first one in a
\* resize, and the nodes of both are free
C24_Witness ==
    /\ wk[Master].pc = "d_exit"
    /\ chained = 2
    /\ ~tbl[1].live /\ ~tbl[2].live
    /\ \A n \in NodeIds : ~mem[n].live

--------------------------------------------------------------------------------
\* The order of the steps of resize and of the driver loop.

\* resize up to the barrier that ends the omp for: the old table is read
BeforeSwapPcs == {"rz_b1", "rz_single1", "rz_b2", "rz_b3", "rz_for", "rz_ins", "rz_b4"}

Rehashing(t) == wk[t].pc \in {"rz_for", "rz_ins"}

\* thread t has been through every old bucket of its share
ShareDone(t) == wk[t].pc \in {"rz_single2", "rz_b5"} /\ wk[t].i >= wk[t].hi

C25_State ==
    \A t \in Threads :
        \* the old table is live and published as long as a worker may read it
        /\ wk[t].pc \in BeforeSwapPcs =>
              tbl[wk[t].curr_chained].live /\ chained = wk[t].curr_chained
        /\ (wk[t].pc = "rz_single2" /\ ~single_taken) =>
              tbl[wk[t].curr_chained].live /\ chained = wk[t].curr_chained
        \* the new table exists when a worker rehashes into it
        /\ Rehashing(t) =>
              /\ next_chained # NULL
              /\ next_chained # chained
              /\ tbl[next_chained].live
        /\ fr[t].pc \in {"R_lock", "R_link", "R_unlock", "RF_snap", "RF_cas"} =>
              fr[t].tab = next_chained /\ Rehashing(t)

C25_Step ==
    \* the allocation: once, by a worker in the first single, nobody rehashing
    /\ next_chained' # next_chained /\ next_chained' # NULL =>
          /\ next_chained = NULL
          /\ ~tbl[next_chained'].live /\ tbl'[next_chained'].live
          /\ \A t \in Threads : wk[t].pc \in {"rz_single1", "rz_b2"}
          /\ \E t \in Threads : wk[t].pc = "rz_single1" /\ wk'[t].pc = "rz_b2"
    \* the swap, the destruction and the clearing of the flag: together, once,
    \* by a worker in the second single, every worker through with its share
    /\ (\/ chained' # chained
        \/ \E T \in TableIds : tbl[T].live /\ ~tbl'[T].live
        \/ resize_needed # 0 /\ resize_needed' = 0) =>
          /\ chained' = next_chained /\ next_chained # NULL
          /\ ~tbl'[chained].live /\ tbl'[chained'].live
          /\ resize_needed' = 0
          /\ \A t \in Threads : ShareDone(t) /\ fr[t].pc = "idle"
          /\ \A t \in Threads : wk[t].curr_chained = chained
          /\ \E t \in Threads : wk[t].pc = "rz_single2" /\ wk'[t].pc = "rz_b5"

\* C25: in resize the new table is allocated by exactly one worker before any
\* worker starts rehashing; the handle is swapped, the old table destroyed and
\* resize_needed cleared by exactly one worker, only after every worker has
\* been through its share of the old buckets; no worker reads the old table
\* after it is destroyed.
C25_ResizeOrder == [](C25_State) /\ [][C25_Step]_vars

\* C25 witness: one worker has swapped and destroyed, the other has yet to
\* go through the second single, and the new table holds rehashed nodes
C25_Witness ==
    \E t, u \in Threads :
        /\ wk[t].pc = "rz_b5" /\ wk[u].pc = "rz_single2"
        /\ single_taken
        /\ ~tbl[wk[u].curr_chained].live
        /\ chained # wk[u].curr_chained
        /\ TableNodes(chained) # {}

\* thread t is at the test of resize_needed after the barrier of line 236
AtCheck(t) == wk[t].pc = "d_check"

C26_State ==
    \A t \in Threads :
        \* what the check is about to read is what the barrier left
        /\ AtCheck(t) =>
              /\ resize_needed = it_snap.needed
              /\ chained = it_snap.table
        \* the workers past the check have all taken the same branch
        /\ \A u \in Threads :
              (AtCheck(t) /\ wk[u].pc \in BeforeSwapPcs) =>
                  it_snap.needed # 0 /\ wk[u].curr_chained = it_snap.table
        /\ \A u \in Threads :
              (AtCheck(t) /\ wk[u].pc = "d_b2") => it_snap.needed = 0

C26_Step ==
    /\ \A t \in Threads :
          (AtCheck(t) /\ ~AtCheck(t)') =>
              IF it_snap.needed # 0
              THEN wk'[t].pc = "rz_b1" /\ wk'[t].curr_chained = it_snap.table
              ELSE wk'[t].pc = "d_b2"
    \* the flag and the handle are not written while a worker has the check
    \* before it
    /\ (resize_needed' # resize_needed \/ chained' # chained) =>
          \A t \in Threads : ~AtCheck(t)

\* C26: in every iteration of the driver loop all workers read the same value
\* of resize_needed at the check after the barrier that follows the taskwait,
\* so all of them enter resize or none does, and those that enter read the
\* same table handle; resize_needed is not cleared while a worker has not yet
\* made the check.
C26_CollectiveEntry == [](C26_State) /\ [][C26_Step]_vars

\* C26 witness: one worker is in resize at its first barrier, the other has
\* the check before it and the flag is still set
C26_Witness ==
    \E t, u \in Threads :
        /\ AtCheck(t)
        /\ wk[u].pc = "rz_b1"
        /\ resize_needed = 1
        /\ wk[u].curr_chained = chained

\* thread t has found end_of_file set at the loop test and is out of the loop
LeftLoop(t) == wk[t].pc \in {"d_end", "d_out", "d_exit"}

\* thread t is inside an iteration of the loop
InIteration(t) == ~LeftLoop(t) /\ wk[t].pc # "d_test"

\* C27 as stated: all workers evaluate the loop condition on end_of_file to
\* the same result in every iteration, so no worker is out of the driver loop
\* while another worker is inside one more iteration.
C27_Original ==
    \A t, u \in Threads :
        LeftLoop(t) => (LeftLoop(u) \/ (wk[u].pc = "d_test" /\ end_of_file # 0))

\* a worker has left the loop and passed the barrier at the end of the
\* parallel region together with the other worker's single barrier; the
\* other worker waits at the barrier after the taskwait
C27_Witness ==
    \E t, u \in Threads :
        /\ wk[t].pc = "d_out"
        /\ wk[u].pc = "d_b1"
        /\ end_of_file = 1

\* every worker is out of the parallel region and main has destroyed the table
Terminated ==
    /\ wk[Master].pc = "d_exit"
    /\ \A t \in Threads \ {Master} : wk[t].pc = "d_out"
    /\ ~tbl[chained].live

\* C28 as stated: for every finite input, under fair scheduling every worker
\* eventually leaves the driver loop and the program reaches destroy_table;
\* no worker waits forever at a barrier, at the taskwait or on a bucket lock.
C28_Original == <>Terminated

\* a worker has left the loop while another was inside an iteration
SplitTeam == \E t, u \in Threads : LeftLoop(t) /\ InIteration(u)

\* the runs in which the workers never part at the loop test do terminate
C28_TerminatesUnlessSplit == <>(Terminated \/ SplitTeam)

\* the master waits at the barrier after the taskwait, the other worker is out
\* of the parallel region, and no step is possible
C28_Witness ==
    /\ wk[Master].pc = "d_b1"
    /\ \A t \in Threads \ {Master} : wk[t].pc = "d_out"
    /\ pool = {}
    /\ \A t \in Threads : ~tk[t].active
    /\ ~ENABLED MainNext

\* a resize is under way and has reached its second single
ResizePerformed == \E t \in Threads : wk[t].pc = "rz_single2"

\* C29 as stated: whenever an insert sets resize_needed to 1, a resize is
\* performed at the end of the batch in which it was set and before the
\* driver loop exits, also when the batch is the one that reaches end-of-file.
C29_Original ==
    /\ [](\A t \in Threads : LeftLoop(t) => resize_needed = 0)
    /\ (resize_needed = 1) ~> ResizePerformed

\* the runs in which the workers never part at the loop test lose no trigger
C29_NoLossUnlessSplit ==
    /\ [](SplitTeam \/ \A t \in Threads : LeftLoop(t) => resize_needed = 0)
    /\ (resize_needed = 1) ~> (ResizePerformed \/ SplitTeam)

\* the table is destroyed at the end of main with the flag set and no resize
\* done: the master left the loop early, the other worker waits at the barrier
\* after the taskwait
C29_Witness ==
    /\ wk[Master].pc = "d_exit"
    /\ resize_needed = 1
    /\ chained = 1
    /\ \E u \in Threads : wk[u].pc = "d_b1"

--------------------------------------------------------------------------------
\* The dispatch phase on files longer than one batch (main.c 115-232).

\* a data file of n chunks, each one lookup line
FileLong(n) == [c \in 1..n |-> << Line("L", 1, 1) >>]

\* the runs explored: those of the driver, and files that end just before, at
\* and after the 255th chunk
BatchConfigs ==
    DriverConfigs \cup
    {[variant |-> "lockfree", re |-> 1, st |-> 0, nb |-> 1, file |-> FileLong(n)] :
        n \in (MAX_TASK_POOL - 2)..MAX_TASK_POOL}

InitBatch == \E c \in BatchConfigs : InitRun(c)

\* omp task, run at once by the encountering thread: the schedule in which
\* the runtime defers no task
batch_task(t) ==
    /\ main_task(t)
    /\ pool' = pool

BatchNext ==
    \/ \E t \in Threads :
        \/ main_test(t) \/ main_single(t) \/ main_fread(t) \/ batch_task(t)
        \/ main_after(t) \/ main_post(t) \/ main_taskwait(t) \/ main_check(t)
        \/ main_resize_done(t) \/ task_op(t)
        \/ task_lookup_ret(t) \/ task_insert_ret(t) \/ task_end(t)
        \/ OpStep(t) \/ main_resize(t)
    \/ barrier

SpecBatch == InitBatch /\ [][BatchNext]_vars

\* thread t creates a task in this step
Spawns(t) == wk[t].pc = "d_task" /\ wk'[t].pc = "d_after"

\* the tasks thread t has created since it entered the single block
Spawned(t) ==
    IF wk[t].pc = "d_after" THEN wk[t].count + 1
    ELSE IF wk[t].pc \in {"d_read", "d_task", "d_post"} THEN wk[t].count
    ELSE 0

C30_State ==
    \A t \in Threads :
        /\ Spawned(t) <= MAX_TASK_POOL - 1
        \* the producer goes on reading only below the bound and with nothing
        \* observed
        /\ wk[t].pc \in {"d_read", "d_task"} =>
              /\ wk[t].count < MAX_TASK_POOL - 1
              /\ wk[t].temp_resize_needed = 0
              /\ end_of_file = 0

C30_Step ==
    \A t \in Threads :
        /\ Spawns(t) =>
              /\ Spawned(t)' = Spawned(t) + 1
              /\ wk[t].temp_resize_needed = 0
              /\ end_of_file = 0
              /\ fpos > 0 /\ wk[t].chunk = fpos
        \* the producer leaves the loop at the bound, at a flag read as set and
        \* at a read of zero bytes
        /\ (wk[t].pc = "d_after" /\ wk'[t].pc = "d_read") =>
              /\ wk'[t].count < MAX_TASK_POOL - 1
              /\ resize_needed = 0
        /\ (wk[t].pc = "d_read" /\ fpos = Len(file) /\ wk'[t] # wk[t]) =>
              wk'[t].pc = "d_post" /\ end_of_file' = 1

\* C30: in each dispatch phase the producer creates at most MAX_TASK_POOL - 1
\* (255) tasks, and creates no further task in that phase once it has read
\* resize_needed as 1 or read zero bytes from the file.
C30_BoundedBatch == [](C30_State) /\ [][C30_Step]_vars

\* C30 witness: the producer has left the loop after its 255th task, with
\* more of the file to read, the flag clear and end_of_file not set
C30_Witness ==
    \E t \in Threads :
        /\ wk[t].pc = "d_post"
        /\ wk[t].count = MAX_TASK_POOL - 1
        /\ wk[t].temp_resize_needed = 0
        /\ end_of_file = 0
        /\ fpos < Len(file)

\* thread t has ended a batch at its 255th task, the first batch of a file that
\* has more chunks
FullBatchEnded(t) ==
    /\ wk[t].pc = "d_sb"
    /\ wk[t].count = MAX_TASK_POOL - 1
    /\ wk[t].temp_resize_needed = 0
    /\ fpos = MAX_TASK_POOL - 1
    /\ fpos < Len(file)

\* C31 as stated, for the batch it names: when exactly MAX_TASK_POOL - 1 tasks
\* were dispatched in the batch and no read has returned zero bytes, the
\* end-of-batch condition has set end_of_file to 1 with input still unread.
C31_Original == \A t \in Threads : FullBatchEnded(t) => end_of_file = 1

C31_State ==
    \* end_of_file is set only with the whole file read
    /\ end_of_file # 0 => fpos = Len(file)
    \* the loop is left without a zero read only at the bound or at the flag
    /\ \A t \in Threads :
          (wk[t].pc = "d_post" /\ end_of_file = 0) =>
              \/ wk[t].count = MAX_TASK_POOL - 1
              \/ wk[t].temp_resize_needed # 0

C31_Step ==
    /\ end_of_file' # end_of_file =>
          /\ end_of_file = 0 /\ end_of_file' = 1
          /\ fpos = Len(file)
          /\ \E t \in Threads : wk[t].pc = "d_read" /\ wk'[t].pc = "d_post"
    \* the assignment of line 230 finds the flag already set or leaves it clear
    /\ \A t \in Threads :
          (wk[t].pc = "d_post" /\ wk'[t].pc = "d_sb") => end_of_file' = end_of_file

\* C31: end_of_file is set only by a read of zero bytes, with no input left
\* unread; a batch that ends at exactly MAX_TASK_POOL - 1 tasks without such
\* a read leaves end_of_file at 0, and the condition after the loop never
\* changes the flag.
C31_NoPrematureEof == [](C31_State) /\ [][C31_Step]_vars

\* C31 witness: the producer is past the end-of-batch condition after its
\* 255th task, chunks remain, and end_of_file is 0
C31_Witness ==
    \E t \in Threads : FullBatchEnded(t) /\ end_of_file = 0

--------------------------------------------------------------------------------
\* The reading of the data file in chunks, byte by byte (main.c 119-150).

FILE_CHUNK_SIZE == 32768

\* number of lines of a data file
MaxLines == 3

\* the lengths of a line in bytes, its newline included: a short line, and
\* lines about as long as a chunk
LineLens ==
    {6, FILE_CHUNK_SIZE \div 2, FILE_CHUNK_SIZE - 6, FILE_CHUNK_SIZE,
     FILE_CHUNK_SIZE + 1}

\* the data files: up to MaxLines lines, the last with or without its newline
LineSeqs == UNION {[1..n -> LineLens] : n \in 0..MaxLines}

RECURSIVE LineEnd(_, _)
\* the offset just past line i
LineEnd(lines, i) == IF i = 0 THEN 0 ELSE LineEnd(lines, i - 1) + lines[i]

LineStart(lines, i) == LineEnd(lines, i - 1)

FileSize(lines) == LineEnd(lines, Len(lines))

\* the offsets just past a newline character
NewlineEnds(lines, newline) ==
    {LineEnd(lines, i) : i \in {j \in 1..Len(lines) : j < Len(lines) \/ newline}}

MaxOf(S) == CHOOSE x \in S : \A y \in S : y <= x

MinOf(a, b) == IF a <= b THEN a ELSE b

InitStream ==
    /\ variant \in {"locked", "lockfree"}
    /\ resize_enabled = 1
    /\ speed_test = 0
    /\ hcall = NoCall
    /\ opt = NoOpt
    /\ \E ls \in LineSeqs, nl \in BOOLEAN :
          stream = [pc |-> "fread", lines |-> ls, newline |-> nl, pos |-> 0,
                    chunks |-> <<>>]
    /\ NoTables

\* fread(buffer, 1, FILE_CHUNK_SIZE, f)
bytes_read_of(f) == MinOf(FILE_CHUNK_SIZE, FileSize(f.lines) - f.pos)

\* the loop from the end of the buffer to the last newline in it, and
\* valid_bytes; the whole buffer when it holds no newline or is not full
valid_bytes_of(f) ==
    LET bytes_read == bytes_read_of(f)
        found == {e \in NewlineEnds(f.lines, f.newline) :
                     f.pos < e /\ e <= f.pos + bytes_read}
    IN  IF bytes_read = FILE_CHUNK_SIZE /\ found # {}
        THEN MaxOf(found) - f.pos
        ELSE bytes_read

\* one pass of the producer's loop: fread, the alignment to the last newline
\* with fseek back to it, and the chunk handed to a task; or zero bytes
main_chunk ==
    /\ stream.pc = "fread"
    /\ IF bytes_read_of(stream) = 0
       THEN stream' = [stream EXCEPT !.pc = "eof"]
       ELSE stream' = [stream EXCEPT
                         !.pos = @ + valid_bytes_of(stream),
                         !.chunks = Append(@, [lo |-> stream.pos,
                                               hi |-> stream.pos + valid_bytes_of(stream)])]
    /\ UNCHANGED <<variant, resize_enabled, speed_test, hcall, opt, rest>>

NextStream == main_chunk

SpecStream == InitStream /\ [][NextStream]_vars

\* the chunks are consecutive pieces that cover the file
Covers(f) ==
    /\ \A c \in 1..Len(f.chunks) :
          /\ f.chunks[c].lo < f.chunks[c].hi
          /\ f.chunks[c].lo = IF c = 1 THEN 0 ELSE f.chunks[c - 1].hi
    /\ f.pos = FileSize(f.lines)
    /\ f.pos = IF f.chunks = <<>> THEN 0 ELSE f.chunks[Len(f.chunks)].hi

\* the chunks that hold some byte of line i / the whole of it
ChunksTouching(f, i) ==
    {c \in 1..Len(f.chunks) :
        f.chunks[c].lo < LineEnd(f.lines, i) /\ LineStart(f.lines, i) < f.chunks[c].hi}

ChunksHolding(f, i) ==
    {c \in 1..Len(f.chunks) :
        f.chunks[c].lo <= LineStart(f.lines, i) /\ LineEnd(f.lines, i) <= f.chunks[c].hi}

\* every line lies in exactly one chunk, whole
NoLineSplit(f) ==
    \A i \in 1..Len(f.lines) :
        /\ Cardinality(ChunksTouching(f, i)) = 1
        /\ ChunksHolding(f, i) = ChunksTouching(f, i)

\* C32 as stated: the chunks handed to tasks are consecutive, non-overlapping
\* pieces that together cover the whole input, and every input line lies
\* entirely inside exactly one chunk.
C32_Original ==
    stream.pc = "eof" => (Covers(stream) /\ NoLineSplit(stream))

\* no line, its newline included, is longer than a chunk
LinesFit(f) == \A i \in 1..Len(f.lines) : f.lines[i] <= FILE_CHUNK_SIZE

\* the chunks always cover the file, and split no line when every line fits
\* into a chunk
C32_NoSplitIfLinesFit ==
    stream.pc = "eof" =>
        /\ Covers(stream)
        /\ LinesFit(stream) => NoLineSplit(stream)

\* a line one byte longer than a chunk has been read in two chunks
C32_Witness ==
    /\ stream.pc = "eof"
    /\ stream.lines = <<FILE_CHUNK_SIZE + 1>>
    /\ Len(stream.chunks) = 2
    /\ stream.chunks[1].hi = FILE_CHUNK_SIZE

--------------------------------------------------------------------------------
\* The number of locks of the striped table (main.c 107, chained_locked.c
\* 122-124 and 342-348).

\* -b values from 1 up to this one
MaxInitBuckets == 17

\* main after getopt with -b n, before create_table
InitLocks ==
    /\ variant = "locked"
    /\ resize_enabled = 1
    /\ speed_test = 0
    /\ hcall = NoCall
    /\ stream = NoStream
    /\ \E n \in 1..MaxInitBuckets :
          opt = [pc |-> "parsed", n |-> 1, b |-> <<>>, t |-> <<>>,
                 initial_buckets |-> n, num_threads |-> DEFAULT_NUM_THREADS]
    /\ NoTables

\* ChainedHashTable* chained = create_table(initial_buckets,
\*                                          initial_buckets / INIT_NUM_LOCKS_RATIO)
main_create_table ==
    /\ opt.pc = "parsed"
    /\ opt' = [opt EXCEPT !.pc = "run"]
    /\ tbl' = [tbl EXCEPT ![1] =
                 create_table(opt.initial_buckets,
                              opt.initial_buckets \div INIT_NUM_LOCKS_RATIO)]
    /\ chained' = 1
    /\ UNCHANGED <<variant, resize_enabled, speed_test, hcall, stream, resize_needed,
                   mem, next_chained, fr, wk, single_taken, ncalls, nresize, hist,
                   gh, drv>>

\* the program has not died of a division by zero
Running == opt.pc = "run" /\ \A t \in Threads : fr[t].pc # "SIGFPE"

\* get_lock_idx at the start of lookup, insert or resize_insert on the table of
\* the handle: bucket_index % num_locks. With num_locks = 0 it is a division by
\* zero: the program is ended by the trap of the divide instruction, or, on a
\* machine whose divide does not trap, the remainder is bucket_index itself
get_lock_idx_call ==
    /\ Running
    /\ \E b \in 0..(tbl[chained].num_buckets - 1) :
          LET call == [IdleFrame EXCEPT !.tab = chained, !.bucket = b]
          IN  IF tbl[chained].num_locks = 0
              THEN \/ fr' = [fr EXCEPT ![1] = [call EXCEPT !.pc = "SIGFPE"]]
                   \/ fr' = [fr EXCEPT ![1] =
                               [call EXCEPT !.pc = "lock_idx", !.lock_idx = b]]
              ELSE fr' = [fr EXCEPT ![1] =
                            [call EXCEPT !.pc = "lock_idx",
                               !.lock_idx = get_lock_idx(tbl[chained].num_locks, b)]]
    /\ UNCHANGED <<cfg, resize_needed, mem, tbl, hist, gh, ctx>>

\* resize after an insert has asked for it: the table of doubled sizes
\* replaces the table of the handle
resize_sizes ==
    /\ Running
    /\ fr[1].pc = "lock_idx"
    /\ tbl[chained].num_buckets * 2 <= 4 * MaxInitBuckets
    /\ tbl' = [tbl EXCEPT ![chained] =
                 create_table(next_num_buckets(tbl[chained].num_buckets),
                              next_num_locks(tbl[chained].num_locks))]
    /\ fr' = [fr EXCEPT ![1] = IdleFrame]
    /\ UNCHANGED <<cfg, resize_needed, mem, hist, gh, ctx>>

NextLocks == main_create_table \/ get_lock_idx_call \/ resize_sizes

SpecLocks == InitLocks /\ [][NextLocks]_vars

\* every table has a lock and no lock index has divided by zero
LocksDefined ==
    /\ \A T \in TableIds : tbl[T].live => tbl[T].num_locks >= 1
    /\ \A t \in Threads : fr[t].pc # "SIGFPE"

\* C33 as stated: in the striped variant every table the driver creates, and
\* every table a resize produces from it, has num_locks >= 1 for every initial
\* bucket count >= 1, so bucket mod num_locks is defined in every operation.
C33_Original == opt.initial_buckets >= 1 => LocksDefined

\* the tables have a lock, and the lock index is below num_locks, when the
\* initial bucket count is at least INIT_NUM_LOCKS_RATIO
C33_LocksFromRatio ==
    opt.initial_buckets >= INIT_NUM_LOCKS_RATIO =>
        /\ LocksDefined
        /\ \A t \in Threads :
              fr[t].pc = "lock_idx" =>
                  fr[t].lock_idx \in 0..(tbl[fr[t].tab].num_locks - 1)

\* with -b 4 the table has no lock and the first operation has divided by zero
C33_Witness ==
    /\ opt.pc = "run"
    /\ opt.initial_buckets = 4
    /\ tbl[chained].live
    /\ tbl[chained].num_buckets = 4
    /\ tbl[chained].num_locks = 0
    /\ fr[1].pc = "SIGFPE"

--------------------------------------------------------------------------------
\* The metrics of the run (main.c 153-208).

\* the chunks whose task is complete
DoneChunks ==
    {c \in 1..fpos :
        /\ \A q \in pool : q.chunk # c
        /\ \A t \in Threads : ~(tk[t].active /\ tk[t].chunk = c)
        /\ \A t \in Threads : ~(wk[t].pc = "d_task" /\ wk[t].chunk = c)}

\* the lines of chunk c with opcode in ops
LinesWith(c, ops) == Cardinality({i \in DOMAIN file[c] : file[c][i].op \in ops})

RECURSIVE LinesIn(_, _)
\* the lines of the chunks of S with opcode in ops
LinesIn(S, ops) ==
    IF S = {} THEN 0
    ELSE LET c == CHOOSE x \in S : TRUE
         IN  LinesWith(c, ops) + LinesIn(S \ {c}, ops)

\* main is past the parallel region
DriverExited == wk[Master].pc \in {"d_out", "d_exit"}

C34_State ==
    speed_test = 0 =>
        \* the totals are the sums over the complete tasks
        /\ run_metrics.total_ops = LinesIn(DoneChunks, {"L", "I"})
        /\ run_metrics.total_lookups = LinesIn(DoneChunks, {"L"})
        /\ run_metrics.total_inserts = LinesIn(DoneChunks, {"I"})
        /\ run_metrics.total_lookups
              = run_metrics.successful_lookups + run_metrics.missed_lookups
        /\ run_metrics.failed_match <= run_metrics.successful_lookups
        \* at the exit every chunk of the file is counted
        /\ DriverExited =>
              /\ DoneChunks = 1..Len(file)
              /\ run_metrics.total_ops = LinesIn(1..Len(file), {"L", "I"})

C34_Step ==
    speed_test = 0 =>
        \A t \in Threads :
            \* a lookup result is counted once, as what it is
            /\ (tk[t].active /\ fr[t].pc = "L_ret" /\ fr'[t].pc = "idle") =>
                  LET val == file[tk[t].chunk][tk[t].cursor - 1].value
                      ret == fr[t].ret
                      old == tk[t].temp
                      new == tk'[t].temp
                  IN  /\ new.missed_lookups
                            = old.missed_lookups + IF ret = INVALID_VALUE THEN 1 ELSE 0
                      /\ new.successful_lookups
                            = old.successful_lookups + IF ret # INVALID_VALUE THEN 1 ELSE 0
                      /\ new.failed_match
                            = old.failed_match
                                + IF ret # INVALID_VALUE /\ ret # val THEN 1 ELSE 0
            \* the end of a task adds its counts to the totals
            /\ (tk[t].active /\ ~tk'[t].active) =>
                  /\ tk[t].temp.total_lookups
                        = tk[t].temp.successful_lookups + tk[t].temp.missed_lookups
                  /\ tk[t].temp.total_ops = Len(file[tk[t].chunk])
                  /\ \A x \in DOMAIN NoMetrics :
                        run_metrics'[x] = run_metrics[x] + tk[t].temp[x]
            \* nothing else writes the totals
            /\ run_metrics' # run_metrics => \E u \in Threads : tk[u].active /\ ~tk'[u].active

\* C34: with metric tracking enabled the global counters are the sums of the
\* counts of the complete tasks, none lost when tasks fold concurrently; when
\* the driver has exited total_ops is the number of parsed lines,
\* total_lookups = successful_lookups + missed_lookups, and failed_match
\* counts exactly the successful lookups whose value differs from the value
\* on the input line.
C34_Metrics == [](C34_State) /\ [][C34_Step]_vars

\* C34 witness: the driver has exited with every line counted, one lookup
\* among them that found a value other than the one on its line
C34_Witness ==
    /\ speed_test = 0
    /\ wk[Master].pc = "d_exit"
    /\ run_metrics.total_ops = MAX_CHAIN_SIZE + 4
    /\ run_metrics.successful_lookups = 1
    /\ run_metrics.failed_match = 1

====
